---- MODULE Spec2Model ----
(***************************************************************************)
(* Adequacy-driven stress-period selection and reserve-margin update of    *)
(* ReEDS_Augur/stress_periods.py: get_annual_neue, get_stress_periods,     *)
(* update_prm and main, as a state machine over one invocation of main for *)
(* a model year t and an iteration.                                        *)
(*                                                                         *)
(* Quantities: unserved energy and load are integers in MWh; a ratio       *)
(* (NEUE, a headroom fraction) is kept exact as a record [n, d] with       *)
(* d > 0 and compared by cross-multiplication; a NEUE ratio n/d stands for *)
(* n/d * 1e6 ppm.  Reserve margins are integers in thousandths.            *)
(***************************************************************************)
EXTENDS Integers, Sequences, FiniteSets, TLC

(* ------------------------------ bounds -------------------------------- *)
\* calendar days of the weather year held by the time index
NDays == 3
\* hours of one calendar day in the time index
HoursPerDay == 2
\* largest unserved energy of one region in one hour [MWh]
MaxEUE == 1
\* most (hour, region) cells with unserved energy in one PRAS run
MaxEvents == 2
\* largest GSw_PRM_StressIncrement
MaxIncrement == 2
\* longest GSw_PRM_StressThreshold list
MaxCriteria == 2

(* ------------------------- time and regions --------------------------- *)
Days == 0 .. (NDays - 1)
\* the time index: one entry per hour of the weather year
timeindex == 0 .. (NDays * HoursPerDay - 1)
DayOf(h) == h \div HoursPerDay
HoursOfDay(d) == {h \in timeindex : DayOf(h) = d}

BaseRegions == {"p1", "p2"}
\* hierarchy.csv: base region -> aggregate region at each level
hierarchy ==
    [p1 |-> [country |-> "USA", nercr |-> "n1", transgrp |-> "g1"],
     p2 |-> [country |-> "USA", nercr |-> "n1", transgrp |-> "g2"]]
\* column order of a frame after groupby: alphabetical
RegionOrder == <<"USA", "g1", "g2", "n1", "p1", "p2">>

get_rmap(hierarchy_level) ==
    IF hierarchy_level = "r"
    THEN [r \in BaseRegions |-> r]
    ELSE [r \in BaseRegions |-> hierarchy[r][hierarchy_level]]

RegionsAt(hierarchy_level) ==
    {get_rmap(hierarchy_level)[r] : r \in BaseRegions}
Members(hierarchy_level, region) ==
    {r \in BaseRegions : get_rmap(hierarchy_level)[r] = region}
RegionSeq(hierarchy_level) ==
    SelectSeq(RegionOrder, LAMBDA x : x \in RegionsAt(hierarchy_level))

\* pras_load_{t}.h5: hourly load by base region [MWh]
dfload ==
    [h \in timeindex |->
        [p1 |-> 100 * (1 + (h % HoursPerDay)),
         p2 |-> 200 + 300 * (h % HoursPerDay)]]

(* --------------------------- arithmetic ------------------------------- *)
RECURSIVE SetSum(_, _)
SetSum(f, S) ==
    IF S = {} THEN 0
    ELSE LET x == CHOOSE y \in S : TRUE IN f[x] + SetSum(f, S \ {x})

Rat(n, d) == [n |-> n, d |-> d]
RatGt(a, b) == a.n * b.d > b.n * a.d
RatGe(a, b) == a.n * b.d >= b.n * a.d
RatEq(a, b) == a.n * b.d = b.n * a.d
RatMax(S) == CHOOSE a \in S : \A b \in S : RatGe(a, b)
IntMax(S) == CHOOSE a \in S : \A b \in S : a >= b
IntMin(S) == CHOOSE a \in S : \A b \in S : a <= b

(* ------------------- PRAS results of one iteration -------------------- *)
\* PRAS_{t}i{iteration}.h5: hourly EUE by base region, few cells nonzero
Cells == timeindex \X BaseRegions
RECURSIVE SubsetsUpTo(_, _)
SubsetsUpTo(S, n) ==
    IF n = 0 THEN {{}}
    ELSE LET P == SubsetsUpTo(S, n - 1) IN P \cup {T \cup {x} : T \in P, x \in S}
PrasResults ==
    UNION {{[c \in Cells |-> IF c \in S THEN m[c] ELSE 0] : m \in [S -> 1 .. MaxEUE]} :
           S \in SubsetsUpTo(Cells, MaxEvents)}

\* dfeue / dfload summed over the base regions of one aggregate region
AggEUE(eue, hierarchy_level, region, h) ==
    SetSum([r \in BaseRegions |-> eue[<<h, r>>]], Members(hierarchy_level, region))
AggLoad(hierarchy_level, region, h) ==
    SetSum([r \in BaseRegions |-> dfload[h][r]], Members(hierarchy_level, region))

(* --------------------------- get_annual_neue -------------------------- *)
AnnualNeueSum(eue, hierarchy_level, region) ==
    Rat(SetSum([h \in timeindex |-> AggEUE(eue, hierarchy_level, region, h)], timeindex),
        SetSum([h \in timeindex |-> AggLoad(hierarchy_level, region, h)], timeindex))
AnnualNeueMax(eue, hierarchy_level, region) ==
    RatMax({Rat(AggEUE(eue, hierarchy_level, region, h),
                AggLoad(hierarchy_level, region, h)) : h \in timeindex})
NeueLevels == {"country", "transgrp", "r"}
get_annual_neue(eue) ==
    [level \in NeueLevels |->
        [metric \in {"sum", "max"} |->
            [region \in RegionsAt(level) |->
                IF metric = "sum"
                THEN AnnualNeueSum(eue, level, region)
                ELSE AnnualNeueMax(eue, level, region)]]]

(* -------------------------- get_stress_periods ------------------------ *)
\* reeds.timeseries.timestamp2h(...).split('h')[0] under GSw_HourlyType = day:
\* the period of calendar day d, named by its day of the year
timestamp2h(d) == d

\* aggregation names pandas' GroupBy.agg accepts (sum, max and one more)
PandasAgg == {"sum", "max", "min"}

\* dfmetric_period[d][region] for stress_metric EUE
DayEUE(eue, hierarchy_level, region, d, period_agg_method) ==
    LET vals == [h \in HoursOfDay(d) |-> AggEUE(eue, hierarchy_level, region, h)] IN
    CASE period_agg_method = "sum" -> Rat(SetSum(vals, HoursOfDay(d)), 1)
      [] period_agg_method = "max" -> Rat(IntMax({vals[h] : h \in HoursOfDay(d)}), 1)
      [] OTHER -> Rat(IntMin({vals[h] : h \in HoursOfDay(d)}), 1)

\* NEUE of a day from its peaks: under max, largest EUE over largest load
DayNEUEOfPeaks(eue, hierarchy_level, region, d, period_agg_method) ==
    IF period_agg_method = "sum"
    THEN Rat(SetSum([h \in HoursOfDay(d) |-> AggEUE(eue, hierarchy_level, region, h)],
                    HoursOfDay(d)),
             SetSum([h \in HoursOfDay(d) |-> AggLoad(hierarchy_level, region, h)],
                    HoursOfDay(d)))
    ELSE Rat(IntMax({AggEUE(eue, hierarchy_level, region, h) : h \in HoursOfDay(d)}),
             IntMax({AggLoad(hierarchy_level, region, h) : h \in HoursOfDay(d)}))
\* dfmetric_period[d][region] for stress_metric NEUE (sum or max)
DayNEUE(eue, hierarchy_level, region, d, period_agg_method) ==
    IF period_agg_method = "sum"
    THEN Rat(SetSum([h \in HoursOfDay(d) |-> AggEUE(eue, hierarchy_level, region, h)],
                    HoursOfDay(d)),
             SetSum([h \in HoursOfDay(d) |-> AggLoad(hierarchy_level, region, h)],
                    HoursOfDay(d)))
    ELSE RatMax({Rat(AggEUE(eue, hierarchy_level, region, h),
                     AggLoad(hierarchy_level, region, h)) : h \in HoursOfDay(d)})

\* which branch of lines 139-174 assigns dfmetric_period, or how it fails
MetricOutcome(stress_metric, period_agg_method) ==
    CASE stress_metric = "EUE" ->
            IF period_agg_method \in PandasAgg THEN "ok" ELSE "AttributeError"
      [] stress_metric = "NEUE" ->
            IF period_agg_method \in {"sum", "max"} THEN "ok" ELSE "UnboundLocalError"
      [] OTHER -> "UnboundLocalError"

dfmetric_period(eue, hierarchy_level, stress_metric, period_agg_method) ==
    [d \in Days |->
        [region \in RegionsAt(hierarchy_level) |->
            IF stress_metric = "EUE"
            THEN DayEUE(eue, hierarchy_level, region, d, period_agg_method)
            ELSE DayNEUE(eue, hierarchy_level, region, d, period_agg_method)]]

\* .stack('r'): one row per (day, region), days ascending, regions in column order
RECURSIVE Stack(_, _, _)
Stack(metric, regions, d) ==
    IF d = NDays THEN <<>>
    ELSE [i \in 1 .. Len(regions) |->
            [d |-> d, r |-> regions[i], val |-> metric[d][regions[i]],
             actual_period |-> timestamp2h(d)]]
         \o Stack(metric, regions, d + 1)

\* .sort_values(ascending=False): descending, equal values keep their order
RECURSIVE InsertDesc(_, _)
InsertDesc(s, x) ==
    IF s = <<>> THEN <<x>>
    ELSE IF RatGt(x.val, Head(s).val) THEN <<x>> \o s
    ELSE <<Head(s)>> \o InsertDesc(Tail(s), x)
RECURSIVE SortDesc(_)
SortDesc(s) ==
    IF s = <<>> THEN <<>>
    ELSE InsertDesc(SortDesc(SubSeq(s, 1, Len(s) - 1)), s[Len(s)])

\* .replace(0, np.nan).dropna()
DropZeros(s) == SelectSeq(s, LAMBDA x : x.val.n # 0)

\* no de-duplication by day: every region's row of a day stays
KeepEveryRegion(s, seen) == s
\* .drop_duplicates(['y','m','d'], keep='first')
RECURSIVE DropDupDays(_, _)
DropDupDays(s, seen) ==
    IF s = <<>> THEN <<>>
    ELSE IF Head(s).d \in seen THEN DropDupDays(Tail(s), seen)
    ELSE <<Head(s)>> \o DropDupDays(Tail(s), seen \cup {Head(s).d})

dfmetric_top(eue, hierarchy_level, stress_metric, period_agg_method) ==
    DropDupDays(
        DropZeros(SortDesc(Stack(
            dfmetric_period(eue, hierarchy_level, stress_metric, period_agg_method),
            RegionSeq(hierarchy_level), 0))),
        {})

get_stress_periods(eue, hierarchy_level, stress_metric, period_agg_method) ==
    LET outcome == MetricOutcome(stress_metric, period_agg_method) IN
    IF outcome = "ok"
    THEN [err |-> "none",
          table |-> dfmetric_top(eue, hierarchy_level, stress_metric, period_agg_method)]
    ELSE [err |-> outcome, table |-> <<>>]

(* ------------------------------ switches ------------------------------ *)
\* entries of GSw_PRM_StressThreshold: level_ppm_metric_agg
Criterion(level, ppm, metric, agg) ==
    [hierarchy_level |-> level, ppm |-> ppm, stress_metric |-> metric,
     period_agg_method |-> agg]
CriteriaPool ==
    {Criterion("country", 500, "EUE", "sum"),
     Criterion("transgrp", 5000, "EUE", "max"),
     Criterion("transgrp", 1000, "NEUE", "sum")}
RECURSIVE ListsUpTo(_)
ListsUpTo(n) ==
    IF n = 0 THEN {<<>>}
    ELSE LET P == ListsUpTo(n - 1) IN
         P \cup {Append(l, c) : l \in P, c \in CriteriaPool}
\* GSw_PRM_StressThreshold.split('/'): a non-empty list, no entry twice
CriteriaLists ==
    {l \in ListsUpTo(MaxCriteria) :
        /\ Len(l) >= 1
        /\ \A i, j \in 1 .. Len(l) : i # j => l[i] # l[j]}

\* GSw_PRM_StressStorageCutoff: off, or cutofftype_cutoff
StorageCutoffs ==
    {[cutofftype |-> "off", cutoff |-> Rat(0, 1)],
     [cutofftype |-> "eue", cutoff |-> Rat(1, 1)],
     [cutofftype |-> "cap", cutoff |-> Rat(1, 2)],
     [cutofftype |-> "abs", cutoff |-> Rat(0, 1)]}

\* A switch is a field of sw from the line that first reads it; until then the
\* field holds Unread (a switch has no effect before it is read).
Unread == "unread"
NoSwitches ==
    [GSw_PRM_StressThreshold |-> Unread,
     GSw_PRM_StressIncrement |-> Unread,
     GSw_PRM_StressUpdate |-> Unread,
     GSw_PRM_StressStorageCutoff |-> Unread,
     GSw_PRM_StressUpdateIncrement |-> Unread,
     GSw_PRM_CapCredit |-> Unread,
     started |-> Unread]

(* ------------------------- files read by main ------------------------- *)
\* largest number of periods in the loaded stress{t}i{iteration}/period_szn.csv
MaxLoaded == 1

\* a row of period_szn.csv for period actual_period (lines 596-603)
PeriodRow(actual_period) ==
    [rep_period |-> actual_period, year |-> 2012, yperiod |-> actual_period + 1,
     actual_period |-> actual_period]

\* stress{t}i{iteration}/period_szn.csv as an earlier run of lines 596-622 wrote it
LoadedSets == {[i \in 1 .. n |-> PeriodRow(i - 1)] : n \in 0 .. MaxLoaded}

\* PRAS_{t}i{iteration}-energy.h5 summed by region (dfenergy_r): the regions that
\* hold storage and their stored energy by hour; the store is full except in the
\* hour of the day `low`, where it is empty
StoredEnergy(regions, low) ==
    [h \in timeindex |->
        [r \in regions |-> IF h % HoursPerDay = low THEN 0 ELSE 2]]
EnergyResults ==
    {StoredEnergy(regions, low) :
        regions \in {{}, {"p1"}}, low \in (-1) .. (HoursPerDay - 1)}

(* ------------------------------- state -------------------------------- *)
VARIABLES
    pc,                             \* where main is
    sw,                             \* the run's switches
    pras,                           \* EUE of PRAS_{t}i{iteration}.h5, once read
    neue,                           \* get_annual_neue's table
    stressperiods_this_iteration,   \* the loaded period set
    dfenergy_r,                     \* storage energy by region
    evaluated,                      \* criteria the loop has taken up, in order
    eue_sorted_periods,             \* _eue_sorted_periods: criterion -> table
    failed,                         \* criterion -> failing regions
    high_eue_periods,               \* (criterion, high_<metric>) -> table
    shoulder_periods,               \* (criterion, after_/before_<period>) -> row
    new_stress_periods,
    combined_periods_write,
    prm_stress_last,                \* stress{t}i{iteration}/prm_stress.csv, once read
    prm_stress,
    written,                        \* files written by this invocation
    err,                            \* the exception that ended main, if any
    args,                           \* arguments of a function called on its own
    result                          \* what that call returned or raised

vars ==
    <<pc, sw, pras, neue, stressperiods_this_iteration, dfenergy_r, evaluated,
      eue_sorted_periods, failed, high_eue_periods, shoulder_periods,
      new_stress_periods, combined_periods_write, prm_stress_last, prm_stress,
      written, err, args, result>>
\* the variables only a function called on its own uses
fnvars == <<args, result>>

\* a csv file of margins: not read yet, read and missing, or read with its rows
NoFileRead == [read |-> FALSE]
PrmFile(present, rows) == [read |-> TRUE, present |-> present, rows |-> rows]

NoFiles ==
    [neue_csv |-> FALSE, period_szn |-> FALSE, prm_stress |-> FALSE,
     eue_sorted_periods |-> FALSE, new_stress_periods |-> FALSE]

\* main has not begun: nothing read, nothing computed, nothing written
MainIdle ==
    /\ sw = NoSwitches
    /\ pras = Unread
    /\ neue = Unread
    /\ stressperiods_this_iteration = <<>>
    /\ dfenergy_r = Unread
    /\ evaluated = <<>>
    /\ eue_sorted_periods = <<>>
    /\ failed = <<>>
    /\ high_eue_periods = <<>>
    /\ shoulder_periods = <<>>
    /\ new_stress_periods = <<>>
    /\ combined_periods_write = <<>>
    /\ prm_stress_last = NoFileRead
    /\ prm_stress = Unread
    /\ written = NoFiles
    /\ err = "none"

Init ==
    /\ pc = "report"
    /\ MainIdle
    /\ args = Unread
    /\ result = Unread

(* ------------------------- main, lines 421-437 ------------------------ *)
\* an except clause that swallows the error whatever GSw_PRM_CapCredit is
AlwaysSwallow(capcredit) == "returned"
\* lines 429-437: the summary raised; the error is raised again when
\* GSw_PRM_CapCredit is 0, and otherwise main goes on to the return of line 437
AfterSummaryError(capcredit) == IF capcredit = 0 THEN "raised" ELSE "returned"

\* the reliability summary, then the early return
ReportNeue ==
    /\ pc = "report"
    /\ \E capcredit \in {0, 1}, started \in BOOLEAN, raises \in BOOLEAN :
        /\ sw' = [sw EXCEPT !.GSw_PRM_CapCredit = capcredit,
                            !.started =
                                IF raises /\ AfterSummaryError(capcredit) = "raised"
                                THEN Unread ELSE started]
        /\ IF raises
           THEN /\ UNCHANGED <<pras, neue, written>>
                /\ pc' = AfterSummaryError(capcredit)
                /\ err' = IF pc' = "raised" THEN "Exception" ELSE "none"
           ELSE /\ \E results \in PrasResults :
                     /\ pras' = results
                     /\ neue' = get_annual_neue(results)
                /\ written' = [written EXCEPT !.neue_csv = TRUE]
                /\ err' = "none"
                /\ pc' = IF capcredit # 0 \/ ~started THEN "returned" ELSE "load"
    /\ UNCHANGED <<stressperiods_this_iteration, dfenergy_r, evaluated,
                   eue_sorted_periods, failed, high_eue_periods, shoulder_periods,
                   new_stress_periods, combined_periods_write, prm_stress_last,
                   prm_stress, fnvars>>

(* ------------------------- main, lines 439-464 ------------------------ *)
LoadState ==
    /\ pc = "load"
    /\ stressperiods_this_iteration' \in LoadedSets
    /\ dfenergy_r' \in EnergyResults
    /\ \E criteria \in CriteriaLists :
        sw' = [sw EXCEPT !.GSw_PRM_StressThreshold = criteria]
    /\ pc' = "criteria"
    /\ UNCHANGED <<pras, neue, evaluated, eue_sorted_periods, failed,
                   high_eue_periods, shoulder_periods, new_stress_periods,
                   combined_periods_write, prm_stress_last, prm_stress, written, err,
                   fnvars>>

(* ------------------ main, lines 464-585: one criterion ----------------- *)
\* a threshold test that also fails a region exactly at the threshold
ExceedsOrEquals(annual, ppm) == annual.n * 1000000 >= ppm * annual.d
\* this_test > float(ppm): annual NEUE [ppm] strictly above the threshold
Exceeds(annual, ppm) == annual.n * 1000000 > ppm * annual.d
FailingRegions(annual_neue, criterion) ==
    LET this_test == annual_neue[criterion.hierarchy_level][criterion.period_agg_method] IN
    {region \in DOMAIN this_test : Exceeds(this_test[region], criterion.ppm)}

\* no truncation: every row of every region is kept
KeepAllRows(s, n, taken) == s
\* .groupby('r').head(n): the first n rows of every region, order kept
RECURSIVE GroupHead(_, _, _)
GroupHead(s, n, taken) ==
    IF s = <<>> THEN <<>>
    ELSE LET r == Head(s).r
             k == Len(SelectSeq(taken, LAMBDA x : x = r)) IN
         IF k < n
         THEN <<Head(s)>> \o GroupHead(Tail(s), n, Append(taken, r))
         ELSE GroupHead(Tail(s), n, taken)

ActualPeriods(table) == {table[i].actual_period : i \in 1 .. Len(table)}

\* candidates without the filter on the loaded period set
CandidatesAnyPeriod(table, failing, loaded) ==
    SelectSeq(table, LAMBDA x : x.r \in failing)
\* lines 490-499: rows of failing regions whose period is not loaded yet
SelectCandidates(table, failing, loaded) ==
    SelectSeq(table, LAMBDA x :
        x.r \in failing /\ x.actual_period \notin ActualPeriods(loaded))
\* lines 490-504: the new high-stress periods of a failing criterion
SelectHighPeriods(table, failing, loaded, increment) ==
    GroupHead(DropDupDays(SelectCandidates(table, failing, loaded), {}), increment, <<>>)

\* a dict keeps its keys in insertion order; an existing key keeps its place
DictPut(dict, key, value) ==
    IF \E i \in 1 .. Len(dict) : dict[i].key = key
    THEN [i \in 1 .. Len(dict) |->
            IF dict[i].key = key THEN [key |-> key, value |-> value] ELSE dict[i]]
    ELSE Append(dict, [key |-> key, value |-> value])
DictKeys(dict) == {dict[i].key : i \in 1 .. Len(dict)}

\* lines 531-537: storage energy at hierarchy_level and its headroom
StorageRegions(energy) == DOMAIN energy[0]
AggStorageRegions(energy, hierarchy_level) ==
    {hierarchy[r][hierarchy_level] : r \in StorageRegions(energy)}
dfenergy_agg(energy, hierarchy_level, region, h) ==
    SetSum(energy[h],
           {r \in StorageRegions(energy) : hierarchy[r][hierarchy_level] = region})
EnergyMax(energy, hierarchy_level, region) ==
    IntMax({dfenergy_agg(energy, hierarchy_level, region, h) : h \in timeindex})
dfheadspace_MWh(energy, hierarchy_level, region, h) ==
    EnergyMax(energy, hierarchy_level, region)
        - dfenergy_agg(energy, hierarchy_level, region, h)
dfheadspace_frac(energy, hierarchy_level, region, h) ==
    Rat(dfheadspace_MWh(energy, hierarchy_level, region, h),
        EnergyMax(energy, hierarchy_level, region))

\* a >= b as floats compare: false when a is 0/0 or x/0 with x of no sign
FloatGe(a, b) == a.d # 0 /\ RatGe(a, b)

\* periodhours of line 529 under GSw_HourlyType = day: one calendar day
periodhours == HoursPerDay
\* a position taken as it is, before the start of the time index as well
BeforeTheStart(i) == i
\* timeindex[i]: a negative position counts from the end
At(i) == IF i < 0 THEN i + Cardinality(timeindex) ELSE i
NaN == Rat(0, 0)

\* the test without its abs case: the headroom decides under every cutoff type
AddShoulderByHeadroom(cutoff, headspace_MWh, headspace_frac, day_eue) ==
    \/ cutoff.cutofftype = "eue"
        /\ FloatGe(Rat(headspace_MWh * day_eue.d, day_eue.n), cutoff.cutoff)
    \/ cutoff.cutofftype = "cap" /\ FloatGe(headspace_frac, cutoff.cutoff)
\* lines 559-563 and 570-574: whether the shoulder next to a day is added
AddShoulder(cutoff, headspace_MWh, headspace_frac, day_eue) ==
    \/ cutoff.cutofftype = "eue"
        /\ FloatGe(Rat(headspace_MWh * day_eue.d, day_eue.n), cutoff.cutoff)
    \/ cutoff.cutofftype = "cap" /\ FloatGe(headspace_frac, cutoff.cutoff)
    \/ cutoff.cutofftype = "abs"

ShoulderRow(hour, region) ==
    [d |-> DayOf(hour), r |-> region, val |-> NaN, actual_period |-> DayOf(hour)]

\* lines 539-579 for one selected row: the dict with its shoulder periods added
ShoulderStep(dict, criterion, cutoff, energy, row) ==
    LET level == criterion.hierarchy_level
        first == IntMin(HoursOfDay(row.d))
        last == IntMax(HoursOfDay(row.d))
        day_before == At(first - periodhours)
        day_after == (first + periodhours) % Cardinality(timeindex)
        after ==
            IF AddShoulder(cutoff, dfheadspace_MWh(energy, level, row.r, last),
                           dfheadspace_frac(energy, level, row.r, last), row.val)
            THEN DictPut(dict, <<criterion, "after", row.actual_period>>,
                         <<ShoulderRow(day_after, row.r)>>)
            ELSE dict
    IN  IF row.r \notin AggStorageRegions(energy, level) THEN dict
        ELSE IF AddShoulder(cutoff, dfheadspace_MWh(energy, level, row.r, first),
                            dfheadspace_frac(energy, level, row.r, first), row.val)
        THEN DictPut(after, <<criterion, "before", row.actual_period>>,
                     <<ShoulderRow(day_before, row.r)>>)
        ELSE after

RECURSIVE ShoulderLoop(_, _, _, _, _)
ShoulderLoop(dict, criterion, cutoff, energy, rows) ==
    IF rows = <<>> THEN dict
    ELSE ShoulderLoop(ShoulderStep(dict, criterion, cutoff, energy, Head(rows)),
                      criterion, cutoff, energy, Tail(rows))

\* line 551, day_eue = row.EUE: the row has no EUE column under another metric
ShoulderRaises(criterion, energy, rows) ==
    /\ criterion.stress_metric # "EUE"
    /\ \E i \in 1 .. Len(rows) :
        rows[i].r \in AggStorageRegions(energy, criterion.hierarchy_level)

\* lines 513-526: shoulder periods are not looked for
ShoulderOff(cutoff, energy) ==
    cutoff.cutofftype = "off" \/ StorageRegions(energy) = {}

\* the loop without its break: the next criterion is taken up after a failure
NoBreak(criteria, n_evaluated) ==
    IF n_evaluated = Len(criteria) THEN "merge" ELSE "criteria"
\* line 582, break: where main goes once a failing criterion is dealt with
AfterFailure(criteria, n_evaluated) == "merge"
\* the loop left after the first criterion that passes
StopAfterPass(criteria, n_evaluated) == "merge"
\* line 585: a criterion passed; the loop takes the next one, if any
AfterPass(criteria, n_evaluated) ==
    IF n_evaluated = Len(criteria) THEN "merge" ELSE "criteria"

EvaluateCriterion ==
    /\ pc = "criteria"
    /\ LET criteria == sw.GSw_PRM_StressThreshold
           criterion == criteria[Len(evaluated) + 1]
           got == get_stress_periods(pras, criterion.hierarchy_level,
                                     criterion.stress_metric, criterion.period_agg_method)
           failing == FailingRegions(neue, criterion)
       IN
       /\ evaluated' = Append(evaluated, criterion)
       /\ IF got.err # "none"
          THEN /\ pc' = "raised" /\ err' = got.err
               /\ UNCHANGED <<sw, eue_sorted_periods, failed, high_eue_periods,
                              shoulder_periods>>
          ELSE
          /\ eue_sorted_periods' = DictPut(eue_sorted_periods, criterion, got.table)
          /\ IF failing = {}
             THEN /\ pc' = AfterPass(criteria, Len(evaluated'))
                  /\ err' = "none"
                  /\ UNCHANGED <<sw, failed, high_eue_periods, shoulder_periods>>
             ELSE \E increment \in 1 .. MaxIncrement, cutoff \in StorageCutoffs :
                  LET high == SelectHighPeriods(got.table, failing,
                                  stressperiods_this_iteration, increment) IN
                  /\ sw' = [sw EXCEPT !.GSw_PRM_StressIncrement = increment,
                                      !.GSw_PRM_StressStorageCutoff = cutoff]
                  /\ failed' = DictPut(failed, criterion, failing)
                  /\ high_eue_periods' =
                        DictPut(high_eue_periods,
                                <<criterion, "high", criterion.stress_metric>>, high)
                  /\ IF ShoulderOff(cutoff, dfenergy_r)
                     THEN /\ pc' = AfterFailure(criteria, Len(evaluated'))
                          /\ err' = "none"
                          /\ UNCHANGED shoulder_periods
                     ELSE IF ShoulderRaises(criterion, dfenergy_r, high)
                     THEN /\ pc' = "raised" /\ err' = "AttributeError"
                          /\ UNCHANGED shoulder_periods
                     ELSE /\ pc' = AfterFailure(criteria, Len(evaluated'))
                          /\ err' = "none"
                          /\ shoulder_periods' =
                                ShoulderLoop(shoulder_periods, criterion, cutoff,
                                             dfenergy_r, high)
    /\ UNCHANGED <<pras, neue, stressperiods_this_iteration, dfenergy_r,
                   new_stress_periods, combined_periods_write, prm_stress_last,
                   prm_stress, written, fnvars>>

(* ----------------------- main, lines 587-643: merge -------------------- *)
\* pd.concat(dict, names=[criterion, periodtype]).reset_index(): the rows of every
\* entry in dict order, each carrying its key
RECURSIVE ConcatDict(_)
ConcatDict(dict) ==
    IF dict = <<>> THEN <<>>
    ELSE LET key == Head(dict).key
             rows == Head(dict).value IN
         [i \in 1 .. Len(rows) |->
            [criterion |-> key[1], periodtype |-> <<key[2], key[3]>>,
             actual_period |-> rows[i].actual_period, d |-> rows[i].d,
             r |-> rows[i].r, val |-> rows[i].val]]
         \o ConcatDict(Tail(dict))

\* .drop_duplicates(subset='actual_period', keep='first')
RECURSIVE DropDupPeriods(_, _)
DropDupPeriods(s, seen) ==
    IF s = <<>> THEN <<>>
    ELSE IF Head(s).actual_period \in seen THEN DropDupPeriods(Tail(s), seen)
    ELSE <<Head(s)>> \o DropDupPeriods(Tail(s), seen \cup {Head(s).actual_period})

\* the merge without the high-stress entries
MergeShouldersOnly(high, shoulder) == DropDupPeriods(ConcatDict(shoulder), {})
\* lines 590-592; {**high_eue_periods, **shoulder_periods}: high entries first
NewStressPeriods(high, shoulder) == DropDupPeriods(ConcatDict(high \o shoulder), {})

\* lines 596-603
new_stressperiods_write(new) == [i \in 1 .. Len(new) |-> PeriodRow(new[i].actual_period)]

\* no de-duplication: the concatenation as it is
KeepDuplicateRows(s, seen) == s
\* .drop_duplicates(keep='first'): a row goes when an equal row came before it
RECURSIVE DropDupRows(_, _)
DropDupRows(s, seen) ==
    IF s = <<>> THEN <<>>
    ELSE IF Head(s) \in seen THEN DropDupRows(Tail(s), seen)
    ELSE <<Head(s)>> \o DropDupRows(Tail(s), seen \cup {Head(s)})

\* the new periods alone, the loaded set left out
NewPeriodsOnly(loaded, new_write) == DropDupRows(new_write, {})
\* lines 614-617
CombinePeriods(loaded, new_write) == DropDupRows(loaded \o new_write, {})

\* lines 635-637: the hours of the periods of the combined set (an empty pattern
\* matches every period)
StressHours(combined) ==
    IF combined = <<>> THEN timeindex
    ELSE {h \in timeindex : timestamp2h(DayOf(h)) \in ActualPeriods(combined)}

UpdateModes == 0 .. 3

\* stopping whenever there is nothing to add, whatever the margin update mode
StopsWithoutNew(new, update) == Len(new) = 0
\* line 606: nothing to add and no margin update, so main stops
StopsHere(new, update) == Len(new) = 0 /\ update = 0

MergePeriods ==
    /\ pc = "merge"
    /\ IF failed = <<>>
       THEN /\ pc' = "done"
            /\ UNCHANGED <<sw, new_stress_periods, combined_periods_write, written, err>>
       ELSE
       LET new == NewStressPeriods(high_eue_periods, shoulder_periods) IN
       /\ new_stress_periods' = new
       \* int(sw.GSw_PRM_StressUpdate) is read at line 606 only when new is empty
       /\ \E update \in (IF new = <<>> THEN UpdateModes ELSE {Unread}) :
            /\ sw' = [sw EXCEPT !.GSw_PRM_StressUpdate = update]
            /\ IF new = <<>> /\ StopsHere(new, update)
               THEN /\ pc' = "done"
                    /\ UNCHANGED <<combined_periods_write, written, err>>
               ELSE /\ combined_periods_write' =
                        CombinePeriods(stressperiods_this_iteration,
                                       new_stressperiods_write(new))
                    /\ written' = [written EXCEPT !.period_szn = TRUE]
                    \* hourly_writetimeseries.main returns or raises
                    /\ \E raises \in BOOLEAN :
                        IF raises
                        THEN pc' = "raised" /\ err' = "WriteTimeseriesError"
                        ELSE pc' = "prm" /\ err' = "none"
    /\ UNCHANGED <<pras, neue, stressperiods_this_iteration, dfenergy_r, evaluated,
                   eue_sorted_periods, failed, high_eue_periods, shoulder_periods,
                   prm_stress_last, prm_stress, fnvars>>

(* ------------------------------ update_prm ---------------------------- *)
RECURSIVE Gcd(_, _)
Gcd(a, b) == IF b = 0 THEN a ELSE Gcd(b, a % b)
Abs(x) == IF x < 0 THEN 0 - x ELSE x
\* the same ratio in lowest terms with a positive denominator
RatNorm(n, d) ==
    LET g == Gcd(Abs(n), Abs(d))
        sgn == IF d < 0 THEN 0 - 1 ELSE 1 IN
    Rat(sgn * (n \div g), sgn * (d \div g))
RatAdd(a, b) == RatNorm(a.n * b.d + b.n * a.d, a.d * b.d)
RatSub(a, b) == RatNorm(a.n * b.d - b.n * a.d, a.d * b.d)
RatMul(a, b) == RatNorm(a.n * b.n, a.d * b.d)
RatDiv(a, b) == RatNorm(a.n * b.d, a.d * b.n)

\* prm_annual.csv at year t: reserve margin by NERC region [thousandths]
prm_annual == [n1 |-> 100]
\* stress{t}i{iteration}/prm_stress.csv, the margins the last iteration raised:
\* no such file, a file with the header only, a file with a row for p1
PrmStressLastFiles ==
    {PrmFile(FALSE, [r \in {} |-> 0]),
     PrmFile(TRUE, [r \in {} |-> 0]),
     PrmFile(TRUE, [r \in {"p1"} |-> 120])}

\* lines 248-258: the previous margin of r; prm_stress_last comes first
HasPrmPrev(last, r) ==
    r \in DOMAIN last \/ hierarchy[r].nercr \in DOMAIN prm_annual
PrmPrev(last, r) ==
    IF r \in DOMAIN last THEN last[r] ELSE prm_annual[hierarchy[r].nercr]

\* lines 262-277: base regions of the failing regions with the lowest ppm each
FailedPpms(criteria, failed_dict, r) ==
    {criteria[i].ppm : i \in
        {j \in 1 .. Len(criteria) :
            \E k \in 1 .. Len(failed_dict) :
                /\ failed_dict[k].key = criteria[j]
                /\ get_rmap(criteria[j].hierarchy_level)[r] \in failed_dict[k].value}}
failed_regions(criteria, failed_dict) ==
    {r \in BaseRegions : FailedPpms(criteria, failed_dict, r) # {}}
\* the weakest threshold kept instead: the highest ppm r failed
LeastStringent(criteria, failed_dict, r) == IntMax(FailedPpms(criteria, failed_dict, r))
\* lines 276-277: sorted by ppm, the first record of r stays
MostStringent(criteria, failed_dict, r) == IntMin(FailedPpms(criteria, failed_dict, r))

\* line 267, failed[criterion]: some criterion of the list has no entry
FailedKeyError(criteria, failed_dict) ==
    \E i \in 1 .. Len(criteria) : criteria[i] \notin DictKeys(failed_dict)

\* lines 308-310: shortfall of r in sample k over all hours, surplus counted as 0
net_short_crit(samples, r, k) ==
    SetSum([h \in timeindex |->
                IF samples[k][<<h, r>>] > 0 THEN samples[k][<<h, r>>] ELSE 0],
           timeindex)

\* line 353: the samples of r with a shortfall, by sample
PlfRows(samples, r) ==
    SelectSeq([k \in 1 .. Len(samples) |->
                    [sample |-> k, v |-> net_short_crit(samples, r, k)]],
              LAMBDA x : x.v > 0)

\* sort_values on two columns: a stable sort
RECURSIVE InsertByShort(_, _, _)
InsertByShort(s, x, ascending) ==
    IF s = <<>> THEN <<x>>
    ELSE IF (ascending /\ x.v < Head(s).v) \/ (~ascending /\ x.v > Head(s).v)
    THEN <<x>> \o s
    ELSE <<Head(s)>> \o InsertByShort(Tail(s), x, ascending)
RECURSIVE SortByShort(_, _)
SortByShort(s, ascending) ==
    IF s = <<>> THEN <<>>
    ELSE InsertByShort(SortByShort(SubSeq(s, 1, Len(s) - 1), ascending),
                       s[Len(s)], ascending)

RECURSIVE SeqSum(_)
SeqSum(s) == IF s = <<>> THEN 0 ELSE Head(s).v + SeqSum(Tail(s))

\* lines 358-360: slope of the row of sample k, from its place in descending order
PlfSlope(rows, k, n_samples) ==
    LET desc == SortByShort(rows, FALSE)
        place == CHOOSE i \in 1 .. Len(desc) : desc[i].sample = k IN
    Rat(0 - place, n_samples)

\* lines 362-368, rows ascending: x1, x2 and Dy of row i
PlfX1(asc, i) == IF i = 1 THEN 0 ELSE asc[i - 1].v
PlfDy(rows, asc, i, n_samples) ==
    RatMul(PlfSlope(rows, asc[i].sample, n_samples), Rat(asc[i].v - PlfX1(asc, i), 1))

\* lines 355 and 372-375: y1 of row i (y2 is the next row's y1, 0 after the last)
RECURSIVE PlfY1(_, _, _, _)
PlfY1(rows, asc, i, n_samples) ==
    IF i = 1 THEN RatNorm(SeqSum(rows), n_samples)
    ELSE RatAdd(PlfY1(rows, asc, i - 1, n_samples), PlfDy(rows, asc, i - 1, n_samples))
PlfY2(rows, asc, i, n_samples) ==
    IF i = Len(asc) THEN Rat(0, 1) ELSE PlfY1(rows, asc, i + 1, n_samples)

\* lines 353-375: the curve of r, one row per sample with a shortfall, ascending
plfs(samples, r) ==
    LET rows == PlfRows(samples, r)
        asc == SortByShort(rows, TRUE)
        n == Len(samples) IN
    [i \in 1 .. Len(asc) |->
        [x1 |-> PlfX1(asc, i), x2 |-> asc[i].v,
         slope |-> PlfSlope(rows, asc[i].sample, n),
         Dy |-> PlfDy(rows, asc, i, n),
         y1 |-> PlfY1(rows, asc, i, n), y2 |-> PlfY2(rows, asc, i, n)]]

\* lines 331 and 345: ppm / 1e6 * load_mwh
TargetEue(ppm, r) ==
    RatNorm(ppm * SetSum([h \in timeindex |-> dfload[h][r]], timeindex), 1000000)
\* lines 335-337
StressLoad(stress_hours, r) == SetSum([h \in timeindex |-> dfload[h][r]], stress_hours)

\* lines 379-391: the increments of r, one per segment that holds the target
SampleIncrements(samples, r, ppm, stress_hours) ==
    LET rows == PlfRows(samples, r)
        asc == SortByShort(rows, TRUE)
        n == Len(samples)
        target == TargetEue(ppm, r)
        segs == SelectSeq([i \in 1 .. Len(asc) |-> i], LAMBDA i :
                    /\ RatGe(PlfY1(rows, asc, i, n), target)
                    /\ RatGe(target, PlfY2(rows, asc, i, n)))
    IN  IF stress_hours = {} THEN <<>>
        ELSE [j \in 1 .. Len(segs) |->
                RatDiv(RatAdd(Rat(PlfX1(asc, segs[j]), 1),
                              RatDiv(RatSub(target, PlfY1(rows, asc, segs[j], n)),
                                     PlfSlope(rows, asc[segs[j]].sample, n))),
                       Rat(StressLoad(stress_hours, r), 1))]

\* line 370: the assertion fails when no sample of any region has a shortfall
DyAssertFails(samples) == \A r \in BaseRegions : PlfRows(samples, r) = <<>>

\* line 399, .round(3) of prm_prev + prm_increment, in thousandths: to the nearest
\* thousandth, a tie to the even one (increment >= 0)
RoundPrm(prm_prev, prm_increment) ==
    LET num == 1000 * prm_increment.n
        q == num \div prm_increment.d
        rem == num - q * prm_increment.d IN
    CASE 2 * rem < prm_increment.d -> prm_prev + q
      [] 2 * rem > prm_increment.d -> prm_prev + q + 1
      [] OTHER -> IF (prm_prev + q) % 2 = 0 THEN prm_prev + q ELSE prm_prev + q + 1

\* previous margins p [thousandths], p < 400, for which the double-precision
\* difference (p + 1) / 1000 - p / 1000 is not above the double 0.001
DiffNotAbove ==
    {0, 1, 2, 3, 4, 5, 6, 7, 8, 10, 12, 14, 17, 21, 25, 29, 35, 42, 50, 58, 70, 85,
     101, 117, 140, 171, 203, 234, 281, 343}

\* line 400: (prm_new > 0) & ((prm_new - prm_prev) > 0.001), computed in doubles
KeepPrmRow(prm_prev, prm_new) ==
    /\ prm_new > 0
    /\ \/ prm_new - prm_prev > 1
       \/ prm_new - prm_prev = 1 /\ prm_prev \notin DiffNotAbove

\* lines 395-409 for the increments of one region
RECURSIVE PrmRows(_, _, _)
PrmRows(last, r, increments) ==
    IF increments = <<>> \/ ~HasPrmPrev(last, r) THEN <<>>
    ELSE LET prm_new == RoundPrm(PrmPrev(last, r), Head(increments)) IN
         (IF KeepPrmRow(PrmPrev(last, r), prm_new)
          THEN <<[r |-> r, prm |-> prm_new]>> ELSE <<>>)
         \o PrmRows(last, r, Tail(increments))

\* the flat increment handed to every base region, failed or not
FlatIncrementForAll(criteria, update, fixed_increment, failed_dict, stress_hours, samples, r) ==
    IF update = 1 THEN <<fixed_increment>>
    ELSE IF r \notin failed_regions(criteria, failed_dict) THEN <<>>
    ELSE SampleIncrements(samples, r, MostStringent(criteria, failed_dict, r),
                          stress_hours)
\* lines 280-392: the increments of region r
prm_increment(criteria, update, fixed_increment, failed_dict, stress_hours, samples, r) ==
    IF r \notin failed_regions(criteria, failed_dict) THEN <<>>
    ELSE IF update = 1 THEN <<fixed_increment>>
    ELSE SampleIncrements(samples, r, MostStringent(criteria, failed_dict, r),
                          stress_hours)

RECURSIVE PrmTable(_, _, _, _, _, _, _, _)
PrmTable(criteria, update, fixed_increment, failed_dict, stress_hours, last, samples, regions) ==
    IF regions = <<>> THEN <<>>
    ELSE PrmRows(last, Head(regions),
                 prm_increment(criteria, update, fixed_increment, failed_dict,
                               stress_hours, samples, Head(regions)))
         \o PrmTable(criteria, update, fixed_increment, failed_dict, stress_hours,
                     last, samples, Tail(regions))

\* line 255, pd.read_csv of a file that is not there
FileNotFound(last) == ~last.present

update_prm(criteria, update, fixed_increment, failed_dict, stress_hours, last, samples) ==
    IF FileNotFound(last)
    THEN [err |-> "FileNotFoundError", table |-> <<>>]
    ELSE IF FailedKeyError(criteria, failed_dict)
    THEN [err |-> "KeyError", table |-> <<>>]
    ELSE IF update # 1 /\ DyAssertFails(samples)
    THEN [err |-> "AssertionError", table |-> <<>>]
    ELSE [err |-> "none",
          table |-> PrmTable(criteria, update, fixed_increment, failed_dict,
                             stress_hours, last.rows, samples, RegionSeq("r"))]

(* ------------------ main, lines 645-678: margin and tables ------------ *)
\* GSw_PRM_StressUpdateIncrement
FixedIncrements == {Rat(1, 100), Rat(1, 2000)}

\* PRAS_{t}i{iteration}-shortfall_samples.h5 of the run whose EUE is eue: one sample
ShortfallSamples(eue) == <<eue>>

\* the margin update put off only when it is switched off
NoUpdateWhenOff(update, new) == update = 0
\* lines 647-658: the margin table is left empty without calling update_prm
NoPrmUpdate(update, new) == update = 0 \/ (Len(new) > 0 /\ update = 3)

UpdateReserveMargin ==
    /\ pc = "prm"
    /\ \E update \in (IF new_stress_periods = <<>>
                      THEN {sw.GSw_PRM_StressUpdate} ELSE UpdateModes) :
        IF NoPrmUpdate(update, new_stress_periods)
        THEN /\ sw' = [sw EXCEPT !.GSw_PRM_StressUpdate = update]
             /\ prm_stress' = <<>>
             /\ written' = [written EXCEPT !.prm_stress = TRUE,
                                           !.eue_sorted_periods = TRUE,
                                           !.new_stress_periods = TRUE]
             /\ pc' = "done"
             /\ UNCHANGED <<prm_stress_last, err>>
        ELSE \E last \in PrmStressLastFiles :
             \E fixed_increment \in
                    (IF /\ update = 1
                        /\ ~FileNotFound(last)
                        /\ ~FailedKeyError(sw.GSw_PRM_StressThreshold, failed)
                     THEN FixedIncrements ELSE {Unread}) :
             LET got == update_prm(sw.GSw_PRM_StressThreshold, update, fixed_increment,
                                   failed, StressHours(combined_periods_write), last,
                                   ShortfallSamples(pras)) IN
             /\ sw' = [sw EXCEPT !.GSw_PRM_StressUpdate = update,
                                 !.GSw_PRM_StressUpdateIncrement = fixed_increment]
             /\ prm_stress_last' = last
             /\ IF got.err # "none"
                THEN /\ pc' = "raised" /\ err' = got.err
                     /\ UNCHANGED <<prm_stress, written>>
                ELSE /\ prm_stress' = got.table
                     /\ written' = [written EXCEPT !.prm_stress = TRUE,
                                                   !.eue_sorted_periods = TRUE,
                                                   !.new_stress_periods = TRUE]
                     /\ pc' = "done"
                     /\ UNCHANGED err
    /\ UNCHANGED <<pras, neue, stressperiods_this_iteration, dfenergy_r, evaluated,
                   eue_sorted_periods, failed, high_eue_periods, shoulder_periods,
                   new_stress_periods, combined_periods_write, fnvars>>

Next ==
    \/ ReportNeue
    \/ LoadState
    \/ EvaluateCriterion
    \/ MergePeriods
    \/ UpdateReserveMargin

Spec == Init /\ [][Next]_vars

(* ---------------- get_stress_periods called on its own ---------------- *)
\* values of stress_metric: the two supported ones and another
StressMetrics == {"EUE", "NEUE", "LOLE"}
\* values of period_agg_method: sum, max, another pandas aggregation, no aggregation
AggMethods == {"sum", "max", "min", "top"}

InitStress ==
    /\ pc = "get_stress_periods"
    /\ MainIdle
    /\ args \in [eue : PrasResults, hierarchy_level : NeueLevels,
                 stress_metric : StressMetrics, period_agg_method : AggMethods]
    /\ result = Unread
CallGetStressPeriods ==
    /\ pc = "get_stress_periods"
    /\ result' = get_stress_periods(args.eue, args.hierarchy_level,
                                    args.stress_metric, args.period_agg_method)
    /\ pc' = "get_stress_periods_done"
    /\ UNCHANGED <<sw, pras, neue, stressperiods_this_iteration, dfenergy_r,
                   evaluated, eue_sorted_periods, failed, high_eue_periods,
                   shoulder_periods, new_stress_periods, combined_periods_write,
                   prm_stress_last, prm_stress, written, err, args>>
NextStress == CallGetStressPeriods
SpecStress == InitStress /\ [][NextStress]_vars

(* ------------- the merge of lines 614-617 called on its own ------------ *)
\* longest period table handed to the merge
MaxSetLen == 2
RECURSIVE PeriodTables(_)
PeriodTables(n) ==
    IF n = 0 THEN {<<>>}
    ELSE LET P == PeriodTables(n - 1) IN
         P \cup {Append(s, PeriodRow(d)) : s \in P, d \in Days}

InitMerge ==
    /\ pc = "merge_sets"
    /\ MainIdle
    /\ args \in [a : PeriodTables(MaxSetLen), b : PeriodTables(MaxSetLen)]
    /\ result = Unread
\* a period set as the merge makes it, from a loaded and a new table
MergeSets ==
    /\ pc = "merge_sets"
    /\ result' = CombinePeriods(args.a, args.b)
    /\ pc' = "merged"
    /\ UNCHANGED <<sw, pras, neue, stressperiods_this_iteration, dfenergy_r,
                   evaluated, eue_sorted_periods, failed, high_eue_periods,
                   shoulder_periods, new_stress_periods, combined_periods_write,
                   prm_stress_last, prm_stress, written, err, args>>
\* that set merged with itself
MergeWithItself ==
    /\ pc = "merged"
    /\ args' = [a |-> result, b |-> result]
    /\ result' = CombinePeriods(result, result)
    /\ pc' = "remerged"
    /\ UNCHANGED <<sw, pras, neue, stressperiods_this_iteration, dfenergy_r,
                   evaluated, eue_sorted_periods, failed, high_eue_periods,
                   shoulder_periods, new_stress_periods, combined_periods_write,
                   prm_stress_last, prm_stress, written, err>>
NextMerge == MergeSets \/ MergeWithItself
SpecMerge == InitMerge /\ [][NextMerge]_vars

(* ------------ update_prm's merge rule, lines 394-409, on its own ------- *)
\* previous margins [thousandths] and increments; the sums that fall halfway
\* between two thousandths are ones the double computation rounds to the even one
PrmPrevGrid == {0, 50, 58, 99, 100, 120, 150, 200}
PrmIncrementGrid == {Rat(k, 10000) : k \in {0, 4, 5, 6, 10, 14, 15, 16, 20, 100}}

InitPrmMerge ==
    /\ pc = "prm_merge"
    /\ MainIdle
    /\ args \in [prm_prev : PrmPrevGrid, prm_increment : PrmIncrementGrid]
    /\ result = Unread
CallPrmMerge ==
    /\ pc = "prm_merge"
    /\ result' = PrmRows([r \in {"p1"} |-> args.prm_prev], "p1", <<args.prm_increment>>)
    /\ pc' = "prm_merge_done"
    /\ UNCHANGED <<sw, pras, neue, stressperiods_this_iteration, dfenergy_r,
                   evaluated, eue_sorted_periods, failed, high_eue_periods,
                   shoulder_periods, new_stress_periods, combined_periods_write,
                   prm_stress_last, prm_stress, written, err, args>>
NextPrmMerge == CallPrmMerge
SpecPrmMerge == InitPrmMerge /\ [][NextPrmMerge]_vars

(* ----------------------- update_prm called on its own ------------------ *)
\* most samples in PRAS_{t}i{iteration}-shortfall_samples.h5
MaxSamples == 2
\* net shortfall of one region in an hour of a sample [MWh]; negative: a surplus
ShortfallGrid == {0 - 1, 0, 1, 2, 10}

\* one sample: p1 and p2 short (or in surplus) in the first hour, p1 in surplus in
\* the second hour, balance elsewhere
ShortfallSample(v1, v2) ==
    [c \in Cells |->
        CASE c = <<0, "p1">> -> v1
          [] c = <<0, "p2">> -> v2
          [] c = <<1, "p1">> -> 0 - 1
          [] OTHER -> 0]
RECURSIVE SampleSetsUpTo(_)
SampleSetsUpTo(n) ==
    IF n = 0 THEN {<<>>}
    ELSE LET P == SampleSetsUpTo(n - 1) IN
         P \cup {Append(l, ShortfallSample(v1, v2)) :
                    l \in P, v1 \in ShortfallGrid, v2 \in {0, 2}}
SampleSets == {l \in SampleSetsUpTo(MaxSamples) : Len(l) >= 1}

\* GSw_PRM_StressThreshold and the failed dict handed to update_prm: one criterion
\* that failed in g1; one that failed in USA; two that both failed; two of which
\* only the first has an entry
FailedCases ==
    LET country == Criterion("country", 500, "EUE", "sum")
        transgrp == Criterion("transgrp", 5000, "EUE", "max") IN
    {[criteria |-> <<transgrp>>, failed |-> <<[key |-> transgrp, value |-> {"g1"}]>>],
     [criteria |-> <<country>>, failed |-> <<[key |-> country, value |-> {"USA"}]>>],
     [criteria |-> <<transgrp, country>>,
      failed |-> <<[key |-> transgrp, value |-> {"g1"}],
                   [key |-> country, value |-> {"USA"}]>>],
     [criteria |-> <<country, transgrp>>,
      failed |-> <<[key |-> country, value |-> {"USA"}]>>]}

\* stress_hours: no hour, the hours of the first day, every hour
StressHourSets == {{}, HoursOfDay(0), timeindex}

PrmCalls ==
    {[criteria |-> f.criteria, failed |-> f.failed, update |-> 1,
      fixed_increment |-> inc, stress_hours |-> hrs, last |-> last, samples |-> <<>>] :
        f \in FailedCases, inc \in FixedIncrements, hrs \in StressHourSets,
        last \in PrmStressLastFiles}
    \cup
    {[criteria |-> f.criteria, failed |-> f.failed, update |-> 2,
      fixed_increment |-> Rat(0, 1), stress_hours |-> hrs, last |-> last,
      samples |-> smp] :
        f \in FailedCases, hrs \in StressHourSets, last \in PrmStressLastFiles,
        smp \in SampleSets}

InitPrm ==
    /\ pc = "update_prm"
    /\ MainIdle
    /\ args \in PrmCalls
    /\ result = Unread
\* the call; next to what it returns or raises, its locals failed_regions (the ppm
\* of the records left by line 277), plfs (line 375) and prm_increment (lines
\* 283-284 and 392), by region, as far as it got to them
CallUpdatePrm ==
    /\ pc = "update_prm"
    /\ LET out == update_prm(args.criteria, args.update, args.fixed_increment,
                             args.failed, args.stress_hours, args.last, args.samples)
           early == FileNotFound(args.last) \/ FailedKeyError(args.criteria, args.failed)
       IN result' =
            [err |-> out.err, table |-> out.table,
             failed_regions |-> [r \in BaseRegions |->
                        IF early \/ r \notin failed_regions(args.criteria, args.failed)
                        THEN <<>>
                        ELSE <<[ppm |-> MostStringent(args.criteria, args.failed, r)]>>],
             plfs |-> [r \in BaseRegions |->
                        IF early \/ args.update = 1 THEN <<>>
                        ELSE plfs(args.samples, r)],
             prm_increment |-> [r \in BaseRegions |->
                        IF out.err # "none" THEN <<>>
                        ELSE prm_increment(args.criteria, args.update,
                                           args.fixed_increment, args.failed,
                                           args.stress_hours, args.samples, r)]]
    /\ pc' = "update_prm_done"
    /\ UNCHANGED <<sw, pras, neue, stressperiods_this_iteration, dfenergy_r,
                   evaluated, eue_sorted_periods, failed, high_eue_periods,
                   shoulder_periods, new_stress_periods, combined_periods_write,
                   prm_stress_last, prm_stress, written, err, args>>
NextPrm == CallUpdatePrm
SpecPrm == InitPrm /\ [][NextPrm]_vars

(* ------- update_prm over successive iterations, fixed-increment mode ------- *)
\* iterations of one solve year that call update_prm
MaxIterations == 4

\* what one iteration's criterion loop leaves in failed: the first failing criterion
IterFailed ==
    LET country == Criterion("country", 500, "EUE", "sum")
        transgrp == Criterion("transgrp", 5000, "EUE", "max") IN
    {[criteria |-> <<transgrp>>, failed |-> <<[key |-> transgrp, value |-> {"g1"}]>>],
     [criteria |-> <<transgrp>>, failed |-> <<[key |-> transgrp, value |-> {"g2"}]>>],
     [criteria |-> <<country>>, failed |-> <<[key |-> country, value |-> {"USA"}]>>]}
\* GSw_PRM_StressUpdateIncrement, the same in every iteration
IterIncrements == {Rat(1, 100), Rat(2, 100)}

\* lines 664-669 and 255: prm_stress.csv as written, read back by the next iteration
PrmFileOf(table) ==
    PrmFile(TRUE, [r \in {table[i].r : i \in 1 .. Len(table)} |->
                    (CHOOSE row \in {table[i] : i \in 1 .. Len(table)} : row.r = r).prm])

\* args: the iteration, its override file and the flat increment; result: the
\* previous margins the last call used (line 258), the table it wrote, and the
\* margins written for each region by the iterations before it
InitIter ==
    /\ pc = "iterate"
    /\ MainIdle
    /\ \E inc \in IterIncrements :
        args = [iteration |-> 0, last |-> PrmFile(TRUE, [r \in {} |-> 0]),
                fixed_increment |-> inc]
    /\ result = [prm_prev |-> [r \in BaseRegions |-> PrmPrev([r0 \in {} |-> 0], r)],
                 table |-> <<>>,
                 written_before |-> [r \in BaseRegions |-> {}],
                 written |-> [r \in BaseRegions |-> {}]]
\* main of one iteration with GSw_PRM_StressUpdate = 1, lines 659-669
IterateUpdatePrm ==
    /\ pc = "iterate"
    /\ args.iteration < MaxIterations
    /\ \E f \in IterFailed :
        LET out == update_prm(f.criteria, 1, args.fixed_increment, f.failed,
                              timeindex, args.last, <<>>) IN
        /\ result' =
            [prm_prev |-> [r \in BaseRegions |-> PrmPrev(args.last.rows, r)],
             table |-> out.table,
             written_before |-> result.written,
             written |-> [r \in BaseRegions |->
                            result.written[r] \cup
                            {out.table[i].prm : i \in {j \in 1 .. Len(out.table) :
                                                        out.table[j].r = r}}]]
        /\ args' = [args EXCEPT !.iteration = @ + 1, !.last = PrmFileOf(out.table)]
    /\ UNCHANGED <<pc, sw, pras, neue, stressperiods_this_iteration, dfenergy_r,
                   evaluated, eue_sorted_periods, failed, high_eue_periods,
                   shoulder_periods, new_stress_periods, combined_periods_write,
                   prm_stress_last, prm_stress, written, err>>
NextIter == IterateUpdatePrm
SpecIter == InitIter /\ [][NextIter]_vars

(* ------ one pass of the criterion loop on its own, lines 464-504 ------- *)
\* thresholds [ppm] of the criterion: every shortfall fails, or only a large one
SelectThresholds == {0, 5000}

InitSelect ==
    /\ pc = "select"
    /\ MainIdle
    /\ args \in [eue : PrasResults, hierarchy_level : {"transgrp", "r"},
                 ppm : SelectThresholds, stress_metric : {"EUE", "NEUE"},
                 period_agg_method : {"sum"}, loaded : LoadedSets,
                 increment : 1 .. MaxIncrement]
    /\ result = Unread
\* lines 468-504: the sorted table, the failing regions and their new periods
SelectPeriods ==
    /\ pc = "select"
    /\ LET criterion == Criterion(args.hierarchy_level, args.ppm, args.stress_metric,
                                  args.period_agg_method)
           got == get_stress_periods(args.eue, args.hierarchy_level,
                                     args.stress_metric, args.period_agg_method)
           failing == FailingRegions(get_annual_neue(args.eue), criterion)
       IN result' = [table |-> got.table, failing |-> failing,
                     high |-> IF failing = {} THEN <<>>
                              ELSE SelectHighPeriods(got.table, failing, args.loaded,
                                                     args.increment)]
    /\ pc' = "select_done"
    /\ UNCHANGED <<sw, pras, neue, stressperiods_this_iteration, dfenergy_r,
                   evaluated, eue_sorted_periods, failed, high_eue_periods,
                   shoulder_periods, new_stress_periods, combined_periods_write,
                   prm_stress_last, prm_stress, written, err, args>>
NextSelect == SelectPeriods
SpecSelect == InitSelect /\ [][NextSelect]_vars

(* ======================= properties of main ============================ *)
AllRegions == {RegionOrder[i] : i \in 1 .. Len(RegionOrder)}
\* the regions whose annual NEUE [ppm] is strictly above the criterion's threshold
RegionsAbove(criterion) ==
    LET annual == neue[criterion.hierarchy_level][criterion.period_agg_method] IN
    {region \in DOMAIN annual :
        annual[region].n * 1000000 > criterion.ppm * annual[region].d}
\* the rows of every entry of a dict, in order
DictRows(dict) == ConcatDict(dict)

\* C1: early exit. Once a criterion has failed and its selection and shoulder
\* logic has run, the loop takes up no further criterion: the criteria taken up,
\* the failing regions, the selected and shoulder periods and the sorted tables
\* never change again, and every row of the newly-added table and every period
\* added to the merged table comes from that one criterion.
C1_EarlyExit ==
    [][failed # <<>> =>
        /\ evaluated' = evaluated
        /\ failed' = failed
        /\ high_eue_periods' = high_eue_periods
        /\ shoulder_periods' = shoulder_periods
        /\ eue_sorted_periods' = eue_sorted_periods
        /\ Len(failed) = 1
        /\ failed[1].key = evaluated[Len(evaluated)]
        /\ \A i \in 1 .. Len(new_stress_periods') :
                new_stress_periods'[i].criterion = failed[1].key
        /\ ActualPeriods(combined_periods_write') \subseteq
                ActualPeriods(stressperiods_this_iteration)
                \cup {row.actual_period : row \in
                        {DictRows(high_eue_periods \o shoulder_periods)[i] :
                            i \in 1 .. Len(DictRows(high_eue_periods \o shoulder_periods))}}
    ]_vars
\* C1 witness: main is done with a two-criterion list whose first criterion failed
\* and whose second would fail too, and periods were added
C1_Witness ==
    /\ pc = "done"
    /\ Len(sw.GSw_PRM_StressThreshold) = 2
    /\ Len(evaluated) = 1
    /\ failed # <<>>
    /\ RegionsAbove(sw.GSw_PRM_StressThreshold[2]) # {}
    /\ Len(new_stress_periods) > 0
    /\ written.period_szn

\* C2: AllPassed (main past the loop with no failed criterion) is reached only if
\* every criterion of the list was taken up and passed; then no period is added,
\* no margin table is computed, none of the stress{t}i{iteration+1} files is
\* written, and neue_{t}i{iteration}.csv has been written.
C2_AllPassed ==
    (pc \in {"merge", "done"} /\ failed = <<>>) =>
        /\ evaluated = sw.GSw_PRM_StressThreshold
        /\ \A i \in 1 .. Len(evaluated) : RegionsAbove(evaluated[i]) = {}
        /\ new_stress_periods = <<>>
        /\ combined_periods_write = <<>>
        /\ high_eue_periods = <<>> /\ shoulder_periods = <<>>
        /\ prm_stress = Unread
        /\ ~written.period_szn /\ ~written.prm_stress
        /\ ~written.eue_sorted_periods /\ ~written.new_stress_periods
        /\ written.neue_csv
\* C2 witness: main is done, both criteria of a two-criterion list passed although
\* the PRAS run had unserved energy
C2_Witness ==
    /\ pc = "done"
    /\ failed = <<>>
    /\ Len(evaluated) = 2
    /\ \E c \in Cells : pras[c] > 0

AllFourWritten ==
    /\ written.period_szn /\ written.eue_sorted_periods
    /\ written.new_stress_periods /\ written.prm_stress
NoneOfFourWritten ==
    /\ ~written.period_szn /\ ~written.eue_sorted_periods
    /\ ~written.new_stress_periods /\ ~written.prm_stress

RowsOf(region) ==
    {i \in 1 .. Len(new_stress_periods) : new_stress_periods[i].r = region}
HighRowsOf(region) ==
    {i \in RowsOf(region) : new_stress_periods[i].periodtype[1] = "high"}

\* C4 as stated: the rows of new_stress_periods attributed to a region number at
\* most GSw_PRM_StressIncrement.
C4_RowsWithinCap ==
    failed # <<>> =>
        \A region \in AllRegions :
            Cardinality(RowsOf(region)) <= sw.GSw_PRM_StressIncrement
\* C4 amended: the high-stress rows of new_stress_periods attributed to a region
\* number at most GSw_PRM_StressIncrement; with the shoulder periods, of which a
\* high-stress period brings at most two, the rows of a region number at most
\* three times GSw_PRM_StressIncrement.
C4_HighRowsWithinCap ==
    failed # <<>> =>
        \A region \in AllRegions :
            /\ Cardinality(HighRowsOf(region)) <= sw.GSw_PRM_StressIncrement
            /\ Cardinality(RowsOf(region)) <= 3 * sw.GSw_PRM_StressIncrement
\* C4 witness: a failing region had more candidate days than the cap and got
\* exactly as many high-stress periods as the cap
C4_Witness ==
    /\ pc = "done"
    /\ failed # <<>>
    /\ \E region \in failed[1].value :
        /\ Cardinality(HighRowsOf(region)) = sw.GSw_PRM_StressIncrement
        /\ Len(SelectSeq(eue_sorted_periods[Len(eue_sorted_periods)].value,
                         LAMBDA x : x.r = region
                            /\ x.actual_period \notin
                                ActualPeriods(stressperiods_this_iteration)))
                > sw.GSw_PRM_StressIncrement

\* the first row of s whose period is actual_period
FirstWithPeriod(s, actual_period) ==
    s[CHOOSE j \in 1 .. Len(s) :
        /\ s[j].actual_period = actual_period
        /\ \A k \in 1 .. (j - 1) : s[k].actual_period # actual_period]

\* C5: the merged period set written to period_szn.csv has no two rows with the
\* same actual_period; the loaded rows come first and unchanged, followed by the
\* new periods that are not loaded, and of the new rows with one actual_period
\* the first in the order high-stress, then shoulder, is the one kept.
C5_NoDuplicatePeriod ==
    written.period_szn =>
        /\ \A i, j \in 1 .. Len(combined_periods_write) :
                i # j => combined_periods_write[i].actual_period
                            # combined_periods_write[j].actual_period
        /\ combined_periods_write =
                stressperiods_this_iteration
                \o SelectSeq(new_stressperiods_write(new_stress_periods),
                             LAMBDA x : x.actual_period \notin
                                ActualPeriods(stressperiods_this_iteration))
        /\ \A i \in 1 .. Len(new_stress_periods) :
                new_stress_periods[i] =
                    FirstWithPeriod(DictRows(high_eue_periods \o shoulder_periods),
                                    new_stress_periods[i].actual_period)
\* C5 witness: a new (shoulder) period was already in the loaded set, and a
\* shoulder period fell on a day that is also a high-stress period
C5_Witness ==
    /\ pc = "done"
    /\ written.period_szn
    /\ Len(combined_periods_write)
            < Len(stressperiods_this_iteration) + Len(new_stress_periods)
    /\ Len(new_stress_periods)
            < Len(DictRows(high_eue_periods \o shoulder_periods))

\* C7: every row of the newly selected high-stress periods belongs to a region
\* that fails the failing criterion and to a period that is not in the loaded set.
C7_CandidateFiltering ==
    \A k \in 1 .. Len(high_eue_periods) :
        LET criterion == high_eue_periods[k].key[1]
            rows == high_eue_periods[k].value IN
        /\ criterion = evaluated[Len(evaluated)]
        /\ \A i \in 1 .. Len(rows) :
            /\ rows[i].r \in RegionsAbove(criterion)
            /\ rows[i].actual_period \notin ActualPeriods(stressperiods_this_iteration)
\* C7 witness: periods were selected while the sorted table also held a day of a
\* failing region that is in the loaded set already
C7_Witness ==
    /\ pc = "done"
    /\ Len(high_eue_periods) = 1
    /\ Len(high_eue_periods[1].value) > 0
    /\ \E i \in 1 .. Len(eue_sorted_periods[Len(eue_sorted_periods)].value) :
        LET row == eue_sorted_periods[Len(eue_sorted_periods)].value[i] IN
        /\ row.r \in failed[1].value
        /\ row.actual_period \in ActualPeriods(stressperiods_this_iteration)

\* C8: a criterion that was taken up is recorded as failed exactly when some region
\* of its level has an annual NEUE (the table of get_annual_neue for the
\* criterion's aggregation method) strictly above ppm; the regions recorded are
\* exactly those, so a region at the threshold passes.
C8_ThresholdTest ==
    \A i \in 1 .. Len(evaluated) :
        /\ evaluated[i] \in DictKeys(failed) <=> RegionsAbove(evaluated[i]) # {}
        /\ \A k \in 1 .. Len(failed) :
            failed[k].key = evaluated[i] => failed[k].value = RegionsAbove(evaluated[i])
\* C8 witness: a criterion passed with a region exactly at its threshold
C8_Witness ==
    /\ pc = "done"
    /\ \E i \in 1 .. Len(evaluated) :
        LET annual == neue[evaluated[i].hierarchy_level][evaluated[i].period_agg_method] IN
        /\ evaluated[i] \notin DictKeys(failed)
        /\ \E region \in DOMAIN annual :
            /\ annual[region].n > 0
            /\ annual[region].n * 1000000 = evaluated[i].ppm * annual[region].d

\* the margin update is off, or put off until no new period is added
Deferred ==
    \/ sw.GSw_PRM_StressUpdate = 0
    \/ sw.GSw_PRM_StressUpdate = 3 /\ Len(new_stress_periods) > 0

\* C12 as stated: when a criterion failed and main returns, then whenever
\* GSw_PRM_StressUpdate is 0, or 3 with a new period being added, the margin table
\* written has no row and update_prm was not called; update_prm is called only in
\* the other cases, among them mode 3 with no new period.
C12_EmptyTableWhenDeferred ==
    /\ (pc = "done" /\ failed # <<>>) =>
            IF Deferred
            THEN written.prm_stress /\ prm_stress = <<>> /\ ~prm_stress_last.read
            ELSE written.prm_stress /\ prm_stress_last.read
    /\ prm_stress_last.read => ~Deferred
\* C12 amended: the same, except that with GSw_PRM_StressUpdate = 0 and no new
\* period main stops at line 606 and writes no margin table at all.
C12_EmptyTableUnlessStopped ==
    /\ (pc = "done" /\ failed # <<>>) =>
            IF sw.GSw_PRM_StressUpdate = 0 /\ new_stress_periods = <<>>
            THEN ~written.prm_stress /\ ~prm_stress_last.read
            ELSE IF Deferred
            THEN written.prm_stress /\ prm_stress = <<>> /\ ~prm_stress_last.read
            ELSE written.prm_stress /\ prm_stress_last.read
    /\ prm_stress_last.read => ~Deferred
\* C12 witness: mode 3 with a new period, so an empty margin table was written
\* without a call of update_prm although a criterion failed
C12_Witness ==
    /\ pc = "done"
    /\ failed # <<>>
    /\ sw.GSw_PRM_StressUpdate = 3
    /\ Len(new_stress_periods) > 0
    /\ written.prm_stress
    /\ prm_stress = <<>>
    /\ ~prm_stress_last.read

\* the shoulder entry of kind side ("before", "after") of the selected row, if any
ShoulderOf(dict, criterion, side, row) ==
    SelectSeq(dict, LAMBDA e : e.key = <<criterion, side, row.actual_period>>)

\* C16: when a criterion fails under a cutoff of type abs and the shoulder loop
\* runs to its end, every selected day whose region is in the aggregated storage
\* series gets both its shoulder periods, the day before and the day after (the
\* first day's before is the last day, the last day's after is the first),
\* whatever the storage headroom at the start and the end of the day.
C16_AbsAddsBoth ==
    [][(/\ pc = "criteria"
        /\ failed' # failed
        /\ pc' # "raised"
        /\ sw'.GSw_PRM_StressStorageCutoff.cutofftype = "abs")
       => LET criterion == evaluated'[Len(evaluated')]
              high == high_eue_periods'[Len(high_eue_periods')].value IN
          \A i \in 1 .. Len(high) :
            high[i].r \in AggStorageRegions(dfenergy_r, criterion.hierarchy_level) =>
                /\ ShoulderOf(shoulder_periods', criterion, "before", high[i]) =
                        <<[key |-> <<criterion, "before", high[i].actual_period>>,
                           value |-> <<ShoulderRow(
                                ((high[i].d + NDays - 1) % NDays) * HoursPerDay,
                                high[i].r)>>]>>
                /\ ShoulderOf(shoulder_periods', criterion, "after", high[i]) =
                        <<[key |-> <<criterion, "after", high[i].actual_period>>,
                           value |-> <<ShoulderRow(
                                ((high[i].d + 1) % NDays) * HoursPerDay,
                                high[i].r)>>]>>
    ]_vars
\* C16 witness: cutoff abs, a selected day of a region whose store is full in
\* every hour (no headroom at either end of the day), and both its shoulder
\* periods are there
C16_Witness ==
    /\ pc = "done"
    /\ failed # <<>>
    /\ sw.GSw_PRM_StressStorageCutoff.cutofftype = "abs"
    /\ \E i \in 1 .. Len(high_eue_periods[1].value) :
        LET row == high_eue_periods[1].value[i]
            level == failed[1].key.hierarchy_level IN
        /\ row.r \in AggStorageRegions(dfenergy_r, level)
        /\ \A h \in HoursOfDay(row.d) : dfheadspace_MWh(dfenergy_r, level, row.r, h) = 0
        /\ Len(ShoulderOf(shoulder_periods, failed[1].key, "before", row)) = 1
        /\ Len(ShoulderOf(shoulder_periods, failed[1].key, "after", row)) = 1

\* C17: when the reliability summary of lines 423-427 raises (no
\* neue_{t}i{iteration}.csv is written), then with GSw_PRM_CapCredit nonzero main
\* returns without an error and with GSw_PRM_CapCredit = 0 the error is raised to
\* the caller; either way main ends there (no step of main starts from returned
\* or raised) with none of the stress-period files (period_szn, prm_stress,
\* eue_sorted_periods, new_stress_periods) written.
C17_ReportingWrapper ==
    [][(pc = "report" /\ ~written'.neue_csv) =>
            /\ IF sw'.GSw_PRM_CapCredit # 0
               THEN pc' = "returned" /\ err' = "none"
               ELSE pc' = "raised" /\ err' = "Exception"
            /\ written' = NoFiles
    ]_vars
\* C17 witness: the summary raised under GSw_PRM_CapCredit nonzero and main
\* returned without an error and without any file
C17_Witness ==
    /\ pc = "returned"
    /\ err = "none"
    /\ sw.GSw_PRM_CapCredit # 0
    /\ ~written.neue_csv
    /\ NoneOfFourWritten

\* C22: with the storage cutoff off, or with no stored-energy series, the failing
\* criterion gets no shoulder period and the loop is left with it (no later
\* criterion is evaluated); the high-stress periods selected for it are the new
\* periods, and they are in the combined set written to period_szn.csv.
C22_ShoulderOffBreaks ==
    (failed # <<>> /\ ShoulderOff(sw.GSw_PRM_StressStorageCutoff, dfenergy_r)) =>
        /\ shoulder_periods = <<>>
        /\ pc # "criteria"
        /\ evaluated[Len(evaluated)] = failed[1].key
        /\ pc \in {"prm", "done", "raised"} =>
            /\ new_stress_periods = DictRows(high_eue_periods)
            /\ new_stress_periods # <<>> =>
                /\ written.period_szn
                /\ \A i \in 1 .. Len(new_stress_periods) :
                     /\ new_stress_periods[i].periodtype[1] = "high"
                     /\ new_stress_periods[i].actual_period
                            \in ActualPeriods(combined_periods_write)
\* C22 witness: the cutoff is off although storage has a series, the first of two
\* criteria failed, its high-stress period was merged and written, and the second
\* criterion was never evaluated
C22_Witness ==
    /\ pc = "done"
    /\ failed # <<>>
    /\ sw.GSw_PRM_StressStorageCutoff.cutofftype = "off"
    /\ StorageRegions(dfenergy_r) # {}
    /\ new_stress_periods # <<>>
    /\ written.period_szn
    /\ Len(sw.GSw_PRM_StressThreshold) = 2
    /\ Len(evaluated) = 1

\* the first hour of the shoulder period of an entry of shoulder_periods
ShoulderHour(e) == e.value[1].d * HoursPerDay
\* the first hour of the selected day the entry belongs to
SelectedHour(e) == e.key[3] * HoursPerDay

\* C23: the shoulder after a selected day starts at position (i + periodhours) mod
\* L of the time index, i the position of the day's first hour and L the length of
\* the index; the shoulder before starts exactly periodhours before i, so that
\* the shoulder before a day of the first period is a period that precedes it.
C23_BeforePrecedes ==
    \A k \in 1 .. Len(shoulder_periods) :
        LET e == shoulder_periods[k] IN
        /\ e.key[2] = "after" =>
                ShoulderHour(e) = (SelectedHour(e) + periodhours) % Cardinality(timeindex)
        /\ e.key[2] = "before" => ShoulderHour(e) = SelectedHour(e) - periodhours
\* C23 as the code has it: both shoulders wrap around the time index; the
\* shoulder before is at position (i - periodhours) mod L, which for a day of the
\* first period is the last period of the time index, not a period before it.
C23_BothShouldersWrap ==
    \A k \in 1 .. Len(shoulder_periods) :
        LET e == shoulder_periods[k]
            L == Cardinality(timeindex) IN
        /\ Len(e.value) = 1
        /\ e.value[1].actual_period = e.value[1].d
        /\ e.key[2] = "after" => ShoulderHour(e) = (SelectedHour(e) + periodhours) % L
        /\ e.key[2] = "before" =>
                ShoulderHour(e) = (SelectedHour(e) - periodhours + L) % L
\* C23 witness: the first day of the time index was selected and the shoulder
\* before it is the last day of the time index
C23_Witness ==
    \E k \in 1 .. Len(shoulder_periods) :
        /\ shoulder_periods[k].key[2] = "before"
        /\ shoulder_periods[k].key[3] = 0
        /\ shoulder_periods[k].value[1].d = NDays - 1

\* C24: whenever main calls update_prm (with the previous override file in
\* place), the call returns a margin table and main finishes, for every criterion
\* list, lists of two or more criteria included, where failed holds only the one
\* criterion that failed.
C24_UpdatePrmReturns ==
    (prm_stress_last.read /\ prm_stress_last.present) =>
        /\ pc = "done"
        /\ err = "none"
        /\ written.prm_stress
\* the same for lists of one criterion only, for which it holds
C24_ReturnsForOneCriterion ==
    (prm_stress_last.read /\ prm_stress_last.present
        /\ Len(sw.GSw_PRM_StressThreshold) = 1) =>
        /\ pc = "done"
        /\ err = "none"
        /\ written.prm_stress
\* with two criteria the call always raises KeyError at line 267
C24_RaisesForTwoCriteria ==
    (prm_stress_last.read /\ prm_stress_last.present
        /\ Len(sw.GSw_PRM_StressThreshold) = 2) =>
        /\ pc = "raised"
        /\ err = "KeyError"
        /\ Len(failed) = 1
        /\ ~written.prm_stress

\* C26: the merged period set written to period_szn.csv keeps every period of
\* the loaded set, and whenever the table of new periods is not empty it has
\* strictly more periods than the loaded set (so a finite time index can be
\* extended only finitely often).
C26_MergedSetGrows ==
    (written.period_szn /\ failed # <<>>) =>
        /\ \A i \in 1 .. Len(stressperiods_this_iteration) :
             combined_periods_write[i] = stressperiods_this_iteration[i]
        /\ ActualPeriods(stressperiods_this_iteration)
                \subseteq ActualPeriods(combined_periods_write)
        /\ new_stress_periods # <<>> =>
             /\ Cardinality(ActualPeriods(combined_periods_write))
                    > Cardinality(ActualPeriods(stressperiods_this_iteration))
             /\ Len(combined_periods_write) > Len(stressperiods_this_iteration)
        /\ ActualPeriods(combined_periods_write) \subseteq Days
\* C26 witness: one period was loaded, two new periods were found of which one (a
\* shoulder) is the loaded one, and the merged set has two periods
C26_Witness ==
    /\ pc = "done"
    /\ written.period_szn
    /\ Len(stressperiods_this_iteration) = 1
    /\ Len(new_stress_periods) = 2
    /\ ActualPeriods(stressperiods_this_iteration) \subseteq ActualPeriods(new_stress_periods)
    /\ Len(combined_periods_write) = 2

\* C27: when the failing criterion has stress_metric NEUE and the storage cutoff
\* is on (eue, cap or abs) with a stored-energy series, the shoulder loop runs to
\* its end without an error and main goes on to merge and write.
C27_NeueShoulderCompletes ==
    [][(/\ pc = "criteria"
        /\ failed' # failed
        /\ evaluated'[Len(evaluated')].stress_metric = "NEUE"
        /\ ~ShoulderOff(sw'.GSw_PRM_StressStorageCutoff, dfenergy_r))
       => (pc' = "merge" /\ err' = "none")]_vars
\* the same for a criterion with stress_metric EUE, for which it holds
C27_EueShoulderCompletes ==
    [][(/\ pc = "criteria"
        /\ failed' # failed
        /\ evaluated'[Len(evaluated')].stress_metric = "EUE"
        /\ ~ShoulderOff(sw'.GSw_PRM_StressStorageCutoff, dfenergy_r))
       => (pc' = "merge" /\ err' = "none")]_vars
\* under NEUE the loop ends without error only when every selected region is
\* skipped for having no storage series; otherwise it raises at its first row
C27_NeueRaisesUnlessSkipped ==
    [][(/\ pc = "criteria"
        /\ failed' # failed
        /\ evaluated'[Len(evaluated')].stress_metric = "NEUE"
        /\ ~ShoulderOff(sw'.GSw_PRM_StressStorageCutoff, dfenergy_r))
       => LET criterion == evaluated'[Len(evaluated')]
              high == high_eue_periods'[Len(high_eue_periods')].value
              stored == {i \in 1 .. Len(high) : high[i].r \in
                            AggStorageRegions(dfenergy_r, criterion.hierarchy_level)} IN
          /\ stored # {} => (pc' = "raised" /\ err' = "AttributeError")
          /\ stored = {} => (pc' = "merge" /\ shoulder_periods' = <<>>)]_vars

\* C28: no period of the table of new periods, high-stress and shoulder periods
\* alike, has an identifier that is already in the loaded set.
C28_NoLoadedPeriodInNew ==
    \A i \in 1 .. Len(new_stress_periods) :
        new_stress_periods[i].actual_period
            \notin ActualPeriods(stressperiods_this_iteration)
\* C28 as the code has it: no high-stress period of the table of new periods is in
\* the loaded set; a shoulder period may be, and then the merge drops it, so that
\* the merged set has the loaded period once.
C28_NoLoadedHighPeriodInNew ==
    /\ \A i \in 1 .. Len(new_stress_periods) :
        new_stress_periods[i].periodtype[1] = "high" =>
            new_stress_periods[i].actual_period
                \notin ActualPeriods(stressperiods_this_iteration)
    /\ written.period_szn =>
        \A i \in 1 .. Len(new_stress_periods) :
            Len(SelectSeq(combined_periods_write,
                          LAMBDA x : x.actual_period = new_stress_periods[i].actual_period))
                = 1
\* C28 witness: the table of new periods has a high-stress period that is not
\* loaded and a shoulder period whose identifier is in the loaded set
C28_Witness ==
    /\ pc = "done"
    /\ written.new_stress_periods
    /\ \E i, j \in 1 .. Len(new_stress_periods) :
        /\ new_stress_periods[i].periodtype[1] = "high"
        /\ new_stress_periods[i].actual_period
                \notin ActualPeriods(stressperiods_this_iteration)
        /\ new_stress_periods[j].periodtype[1] \in {"before", "after"}
        /\ new_stress_periods[j].actual_period
                \in ActualPeriods(stressperiods_this_iteration)

\* C29: the artifacts of the next iteration are written all or none: once main
\* has ended, by returning or by an exception of the time-series writer or of
\* update_prm, the new directory does not hold period_szn.csv without
\* prm_stress.csv and the table of new periods.
C29_AllOrNothing ==
    pc \in {"done", "raised"} =>
        (written.period_szn => (written.prm_stress /\ written.new_stress_periods))
\* when main returns, the artifacts are all there or none is
C29_AllOrNothingOnReturn ==
    pc = "done" => (AllFourWritten \/ NoneOfFourWritten)
\* an exception after line 619 always leaves period_szn.csv alone in the directory
C29_PartialAfterLateError ==
    (pc = "raised" /\ err \in {"WriteTimeseriesError", "FileNotFoundError",
                               "KeyError", "AssertionError"} /\ failed # <<>>) =>
        /\ written.period_szn
        /\ ~written.prm_stress
        /\ ~written.new_stress_periods

(* =============== properties of the functions on their own ============== *)
\* C6: a period set merged with itself (concatenate, drop duplicate rows keeping
\* the first) is the same table, and no two of its rows have one actual_period.
C6_MergeIdempotent ==
    pc = "remerged" =>
        /\ result = args.a
        /\ \A i, j \in 1 .. Len(result) :
                i # j => result[i].actual_period # result[j].actual_period
\* C6 witness: a set of two periods, made from tables that shared a period, was
\* merged with itself
C6_Witness ==
    /\ pc = "remerged"
    /\ Len(args.a) = 2
    /\ Len(result) = 2

\* C9 as stated: for a stress_metric other than EUE and NEUE, and for a
\* period_agg_method other than sum and max under either metric,
\* get_stress_periods raises and returns no table.
C9_RaisesForUnsupported ==
    (/\ pc = "get_stress_periods_done"
     /\ \/ args.stress_metric \notin {"EUE", "NEUE"}
        \/ args.period_agg_method \notin {"sum", "max"})
    => (result.err # "none" /\ result.table = <<>>)
\* C9, the documented error: whenever get_stress_periods raises for such an
\* argument, what it raises is NotImplementedError.
C9_RaisesNotImplemented ==
    (pc = "get_stress_periods_done" /\ result.err # "none")
    => result.err = "NotImplementedError"

\* C10 as stated: the row of a region is written exactly when the rounded new
\* margin is positive and the increase, rounded new margin minus previous margin,
\* is not below 0.001; a row that is written holds the rounded new margin.
C10_WrittenIffMaterial ==
    pc = "prm_merge_done" =>
        LET prm_new == RoundPrm(args.prm_prev, args.prm_increment) IN
        /\ Len(result) > 0 <=> (prm_new > 0 /\ prm_new - args.prm_prev >= 1)
        /\ Len(result) > 0 => result = <<[r |-> "p1", prm |-> prm_new]>>

(* ================= properties of get_stress_periods ==================== *)
\* the call returned a table
StressTable == pc = "get_stress_periods_done" /\ result.err = "none"
\* the metric of (day, region) before the post-aggregation steps
MetricOf(d, region) ==
    dfmetric_period(args.eue, args.hierarchy_level, args.stress_metric,
                    args.period_agg_method)[d][region]
\* place of a region in the column order of the frame
ColumnOf(region) == CHOOSE i \in 1 .. Len(RegionOrder) : RegionOrder[i] = region

RegionEUE(region, h) ==
    SetSum([r \in BaseRegions |-> args.eue[<<h, r>>]],
           {r \in BaseRegions :
                (IF args.hierarchy_level = "r" THEN r
                 ELSE hierarchy[r][args.hierarchy_level]) = region})
RegionLoad(region, h) ==
    SetSum([r \in BaseRegions |-> dfload[h][r]],
           {r \in BaseRegions :
                (IF args.hierarchy_level = "r" THEN r
                 ELSE hierarchy[r][args.hierarchy_level]) = region})
\* sum mode: the day's EUE over the day's load; a ratio n/d is n/d * 1e6 ppm
SumModeNEUE(region, d) ==
    Rat(SetSum([h \in HoursOfDay(d) |-> RegionEUE(region, h)], HoursOfDay(d)),
        SetSum([h \in HoursOfDay(d) |-> RegionLoad(region, h)], HoursOfDay(d)))
\* v is the largest hourly ratio EUE / load of the day
IsMaxModeNEUE(region, d, v) ==
    /\ \E h \in HoursOfDay(d) : RatEq(v, Rat(RegionEUE(region, h), RegionLoad(region, h)))
    /\ \A h \in HoursOfDay(d) : RatGe(v, Rat(RegionEUE(region, h), RegionLoad(region, h)))
\* the hour of the largest EUE and the hour of the largest load of the day are
\* each one hour, and not the same
PeaksApart(region, d) ==
    \E he, hl \in HoursOfDay(d) :
        /\ he # hl
        /\ \A h \in HoursOfDay(d) \ {he} : RegionEUE(region, h) < RegionEUE(region, he)
        /\ \A h \in HoursOfDay(d) \ {hl} : RegionLoad(region, h) < RegionLoad(region, hl)
PeakOverPeak(region, d) ==
    Rat(IntMax({RegionEUE(region, h) : h \in HoursOfDay(d)}),
        IntMax({RegionLoad(region, h) : h \in HoursOfDay(d)}))

\* C19: under stress_metric NEUE, with EUE and load summed over the base regions
\* of the level, a record's value is in sum mode the day's summed EUE over the
\* day's summed load and in max mode the largest hourly EUE / load of the day
\* (times 1e6 for ppm in both); when the peak-EUE hour and the peak-load hour of
\* the day differ, the max-mode value is neither peak EUE over peak load nor the
\* sum-mode value.
C19_NeueFormulas ==
    (StressTable /\ args.stress_metric = "NEUE") =>
        \A i \in 1 .. Len(result.table) :
            LET row == result.table[i] IN
            IF args.period_agg_method = "sum"
            THEN RatEq(row.val, SumModeNEUE(row.r, row.d))
            ELSE /\ IsMaxModeNEUE(row.r, row.d, row.val)
                 /\ PeaksApart(row.r, row.d) =>
                        /\ ~RatEq(row.val, PeakOverPeak(row.r, row.d))
                        /\ ~RatEq(row.val, SumModeNEUE(row.r, row.d))
\* C19 witness: max mode at the country level, a day whose unserved energy falls
\* in the hour of low load: the record holds that hour's ratio, which is above
\* both peak EUE over peak load and the sum-mode value
C19_Witness ==
    /\ StressTable
    /\ args.stress_metric = "NEUE"
    /\ args.period_agg_method = "max"
    /\ args.hierarchy_level = "country"
    /\ \E i \in 1 .. Len(result.table) :
        LET row == result.table[i] IN
        /\ PeaksApart(row.r, row.d)
        /\ RatGt(row.val, PeakOverPeak(row.r, row.d))
        /\ RatGt(row.val, SumModeNEUE(row.r, row.d))

(* ==================== properties of update_prm ======================== *)
\* the rows of table for region r
TableRowsOf(table, r) == SelectSeq(table, LAMBDA x : x.r = r)
\* r lies in an aggregate region recorded in the failed dict handed to update_prm
InFailedRegion(failed_dict, r) ==
    \E k \in 1 .. Len(failed_dict) :
        LET level == failed_dict[k].key.hierarchy_level IN
        (IF level = "r" THEN r ELSE hierarchy[r][level]) \in failed_dict[k].value
\* the previous margin of r as the lookup rule gives it: the row of the override
\* file when there is one, else the base case of r's NERC region
LookupPrev(file, r) ==
    IF file.present /\ r \in DOMAIN file.rows
    THEN file.rows[r]
    ELSE prm_annual[hierarchy[r].nercr]
\* the row of r in the returned table is the one its previous margin prev and
\* the flat increment give: the rounded sum when the increase is kept, else none
RowFromPrev(table, r, prev, increment) ==
    LET prm_new == RoundPrm(prev, increment) IN
    IF KeepPrmRow(prev, prm_new)
    THEN TableRowsOf(table, r) = <<[r |-> r, prm |-> prm_new]>>
    ELSE TableRowsOf(table, r) = <<>>

\* C11 as stated: in update_prm the previous margin of a region is the row of
\* stress{t}i{iteration}/prm_stress.csv when the file is there and has a row for
\* the region, and else the base-case margin of the region's NERC region; with no
\* such file, or a file without rows, every region falls back to the base case
\* (seen in fixed mode, where new margin = previous margin + flat increment).
C11_PreviousPrmLookup ==
    (/\ pc = "update_prm_done"
     /\ args.update = 1
     /\ ~FailedKeyError(args.criteria, args.failed))
    => /\ result.err = "none"
       /\ \A r \in BaseRegions :
            InFailedRegion(args.failed, r) =>
                RowFromPrev(result.table, r, LookupPrev(args.last, r),
                            args.fixed_increment)
\* C11, the part that holds: when the file is there, with or without rows, the
\* lookup is as stated.
C11_LookupWhenPresent ==
    (/\ pc = "update_prm_done"
     /\ args.update = 1
     /\ args.last.present
     /\ ~FailedKeyError(args.criteria, args.failed))
    => /\ result.err = "none"
       /\ \A r \in BaseRegions :
            InFailedRegion(args.failed, r) =>
                RowFromPrev(result.table, r, LookupPrev(args.last, r),
                            args.fixed_increment)

\* the curve of every region was built: sample-informed mode, the override file
\* was there and every criterion had its entry in failed
CurveBuilt ==
    /\ pc = "update_prm_done"
    /\ args.update # 1
    /\ args.last.present
    /\ ~FailedKeyError(args.criteria, args.failed)
RatLe0(a) == a.n * a.d <= 0

\* C13 as stated: for every sample set, also one in which no region has a
\* shortfall, the assertion of line 370 holds (update_prm does not end in
\* AssertionError), and every segment of every region's curve has slope <= 0,
\* Dy <= 0 and y2 <= y1.
C13_DyNeverPositive ==
    CurveBuilt =>
        /\ result.err # "AssertionError"
        /\ \A r \in BaseRegions :
            \A i \in 1 .. Len(result.plfs[r]) :
                LET seg == result.plfs[r][i] IN
                /\ RatLe0(seg.slope)
                /\ RatLe0(seg.Dy)
                /\ RatGe(seg.y1, seg.y2)
\* C13, the part that holds: when some region has a shortfall in some sample the
\* assertion holds and every segment is non-increasing.
C13_DyNeverPositiveWithShortfall ==
    (CurveBuilt /\ \E r \in BaseRegions : result.plfs[r] # <<>>) =>
        /\ result.err = "none"
        /\ \A r \in BaseRegions :
            \A i \in 1 .. Len(result.plfs[r]) :
                LET seg == result.plfs[r][i] IN
                /\ RatLe0(seg.slope)
                /\ RatLe0(seg.Dy)
                /\ RatGe(seg.y1, seg.y2)

\* the target EUE of r under the lowest ppm it failed [MWh], lines 345-347
TargetOf(r) == TargetEue(MostStringent(args.criteria, args.failed, r), r)
\* r failed, has load in the stress hours and a curve whose intercept is at or
\* above its target: the regions for which a segment is looked for
HasTargetOnCurve(r) ==
    /\ InFailedRegion(args.failed, r)
    /\ args.stress_hours # {}
    /\ result.plfs[r] # <<>>
    /\ RatGe(result.plfs[r][1].y1, TargetOf(r))
\* the segments of r's curve whose bracket [y2, y1] holds the target
SegmentsWithTarget(r) ==
    {i \in 1 .. Len(result.plfs[r]) :
        /\ RatGe(result.plfs[r][i].y1, TargetOf(r))
        /\ RatGe(TargetOf(r), result.plfs[r][i].y2)}

\* increment j of r as a surplus [MWh], and whether it solves segment i of r's
\* curve for the target within [x1, x2]
SurplusOf(r, j) ==
    RatMul(result.prm_increment[r][j], Rat(StressLoad(args.stress_hours, r), 1))
SolvesSegment(r, i, surplus) ==
    LET seg == result.plfs[r][i] IN
    /\ RatGe(surplus, Rat(seg.x1, 1))
    /\ RatGe(Rat(seg.x2, 1), surplus)
    /\ RatEq(RatAdd(seg.y1, RatMul(seg.slope, RatSub(surplus, Rat(seg.x1, 1)))),
             TargetOf(r))
\* no two samples of r have the same positive shortfall, and the target is not
\* the y value of a breakpoint between two segments
PlainCurve(r) ==
    /\ \A i \in 1 .. Len(result.plfs[r]) : result.plfs[r][i].x1 < result.plfs[r][i].x2
    /\ \A i \in 2 .. Len(result.plfs[r]) : ~RatEq(result.plfs[r][i].y1, TargetOf(r))

\* C14 as stated: for every region whose target lies between 0 and the intercept
\* of its curve, exactly one segment holds the target in [y2, y1], also when the
\* target is the y value of a breakpoint; the region gets exactly one increment,
\* its surplus is not negative, lies in [x1, x2] and solves the segment for the
\* target, and the returned table has at most one row for the region.
C14_OneSegmentPerRegion ==
    (CurveBuilt /\ result.err = "none") =>
        \A r \in BaseRegions :
            /\ HasTargetOnCurve(r) =>
                /\ Cardinality(SegmentsWithTarget(r)) = 1
                /\ Len(result.prm_increment[r]) = 1
                /\ SurplusOf(r, 1).n * SurplusOf(r, 1).d >= 0
                /\ \E i \in SegmentsWithTarget(r) : SolvesSegment(r, i, SurplusOf(r, 1))
            /\ Len(TableRowsOf(result.table, r)) <= 1
\* C14, the part that holds: the same for a region no two of whose samples have
\* the same positive shortfall and whose target is not the y value of a
\* breakpoint between two segments.
C14_OneSegmentOnPlainCurve ==
    (CurveBuilt /\ result.err = "none") =>
        \A r \in BaseRegions :
            (HasTargetOnCurve(r) /\ PlainCurve(r)) =>
                /\ Cardinality(SegmentsWithTarget(r)) = 1
                /\ Len(result.prm_increment[r]) = 1
                /\ SurplusOf(r, 1).n * SurplusOf(r, 1).d >= 0
                /\ \E i \in SegmentsWithTarget(r) : SolvesSegment(r, i, SurplusOf(r, 1))
                /\ Len(TableRowsOf(result.table, r)) <= 1

\* C15: in fixed mode (GSw_PRM_StressUpdate = 1) every base region of an
\* aggregate region that failed gets exactly the flat increment
\* GSw_PRM_StressUpdateIncrement, once, and a region that did not fail gets no
\* increment and no row in the returned table.
C15_FixedIncrement ==
    (pc = "update_prm_done" /\ args.update = 1 /\ result.err = "none") =>
        \A r \in BaseRegions :
            IF InFailedRegion(args.failed, r)
            THEN result.prm_increment[r] = <<args.fixed_increment>>
            ELSE /\ result.prm_increment[r] = <<>>
                 /\ TableRowsOf(result.table, r) = <<>>
\* C15 witness: fixed mode with g1 failed: p1 got the flat increment of 0.01 and a
\* row with its margin raised by it, p2 got nothing
C15_Witness ==
    /\ pc = "update_prm_done"
    /\ args.update = 1
    /\ result.err = "none"
    /\ args.fixed_increment = Rat(1, 100)
    /\ InFailedRegion(args.failed, "p1")
    /\ ~InFailedRegion(args.failed, "p2")
    /\ result.prm_increment["p1"] = <<Rat(1, 100)>>
    /\ result.prm_increment["p2"] = <<>>
    /\ result.table = <<[r |-> "p1", prm |-> LookupPrev(args.last, "p1") + 10]>>

\* the clipped total shortfall of r in each sample, and the reference expected
\* EUE once a surplus x is added: (1/n) * sum over the samples of max(s - x, 0)
ClippedTotals(r) ==
    [k \in 1 .. Len(args.samples) |-> net_short_crit(args.samples, r, k)]
ReferenceEUE(r, x) ==
    LET s == ClippedTotals(r) IN
    Rat(SetSum([k \in 1 .. Len(s) |-> IF s[k] > x THEN s[k] - x ELSE 0], 1 .. Len(s)),
        Len(s))

\* C20 as stated: for every sample set, also with equal shortfalls among the
\* samples, the curve of a region has one breakpoint per sample with a positive
\* clipped total, in ascending order, its intercept is the mean of the clipped
\* totals over all samples, and y at every breakpoint x is the reference expected
\* EUE at x (0 at the largest).
C20_CurveMatchesReference ==
    (CurveBuilt /\ result.err = "none") =>
        \A r \in BaseRegions :
            LET curve == result.plfs[r] IN
            /\ Len(curve) = Cardinality({k \in 1 .. Len(args.samples) :
                                            ClippedTotals(r)[k] > 0})
            /\ \A i \in 1 .. Len(curve) :
                /\ \E k \in 1 .. Len(args.samples) : ClippedTotals(r)[k] = curve[i].x2
                /\ curve[i].x1 = (IF i = 1 THEN 0 ELSE curve[i - 1].x2)
                /\ curve[i].x1 <= curve[i].x2
                /\ RatEq(curve[i].y1, ReferenceEUE(r, curve[i].x1))
                /\ RatEq(curve[i].y2, ReferenceEUE(r, curve[i].x2))
\* C20, the part that holds: the same for a region no two of whose samples have
\* the same positive shortfall.
C20_CurveMatchesWithoutTies ==
    (CurveBuilt /\ result.err = "none") =>
        \A r \in BaseRegions :
            LET curve == result.plfs[r] IN
            (\A i \in 1 .. Len(curve) : curve[i].x1 < curve[i].x2) =>
                /\ Len(curve) = Cardinality({k \in 1 .. Len(args.samples) :
                                                ClippedTotals(r)[k] > 0})
                /\ \A i \in 1 .. Len(curve) :
                    /\ \E k \in 1 .. Len(args.samples) :
                            ClippedTotals(r)[k] = curve[i].x2
                    /\ curve[i].x1 = (IF i = 1 THEN 0 ELSE curve[i - 1].x2)
                    /\ RatEq(curve[i].y1, ReferenceEUE(r, curve[i].x1))
                    /\ RatEq(curve[i].y2, ReferenceEUE(r, curve[i].x2))

\* the thresholds [ppm] of the criteria that failed in an aggregate region of r
FailedThresholds(r) ==
    {args.failed[k].key.ppm : k \in
        {j \in 1 .. Len(args.failed) :
            LET level == args.failed[j].key.hierarchy_level IN
            (IF level = "r" THEN r ELSE hierarchy[r][level]) \in args.failed[j].value}}

\* C21: in update_prm a base region whose aggregate regions failed more than one
\* criterion keeps exactly one failure record, the one with the lowest ppm; in
\* sample-informed mode that ppm, not a weaker one, sets the region's target.
C21_MostStringentGoverns ==
    (pc = "update_prm_done" /\ args.last.present
        /\ ~FailedKeyError(args.criteria, args.failed)) =>
        \A r \in BaseRegions :
            /\ FailedThresholds(r) = {} => result.failed_regions[r] = <<>>
            /\ FailedThresholds(r) # {} =>
                /\ Len(result.failed_regions[r]) = 1
                /\ result.failed_regions[r][1].ppm \in FailedThresholds(r)
                /\ \A ppm \in FailedThresholds(r) : result.failed_regions[r][1].ppm <= ppm
\* C21 witness: p1 failed transgrp_5000 (in g1) and country_500 (in USA); its one
\* record has 500 ppm, and p2, which failed only country_500, has 500 ppm too
C21_Witness ==
    /\ pc = "update_prm_done"
    /\ result.err = "none"
    /\ FailedThresholds("p1") = {500, 5000}
    /\ result.failed_regions["p1"] = <<[ppm |-> 500]>>
    /\ result.failed_regions["p2"] = <<[ppm |-> 500]>>

\* C25: margin increases persist across iterations: the previous margin an
\* iteration uses for a region is at least every margin an earlier iteration
\* wrote for that region; an increase is not lost because the region is missing
\* from a later override table.
C25_IncrementsPersist ==
    \A r \in BaseRegions :
        \A prm \in result.written_before[r] : result.prm_prev[r] >= prm
\* what holds instead: the previous margin is the row of the region in the table
\* of the iteration just before, and the base-case margin when that table has none
C25_PreviousFromLastTableOnly ==
    [][\A r \in BaseRegions :
        result'.prm_prev[r] =
            IF TableRowsOf(result.table, r) # <<>>
            THEN TableRowsOf(result.table, r)[1].prm
            ELSE prm_annual[hierarchy[r].nercr]]_vars

\* days outside the loaded set on which the region has unserved energy, i.e. a
\* nonzero daily metric of its own
OwnStressDays(region) ==
    {d \in Days : /\ timestamp2h(d) \notin ActualPeriods(args.loaded)
                  /\ \E h \in HoursOfDay(d) : RegionEUE(region, h) > 0}

\* C30: no crowding out: a region that fails the criterion and has at least one
\* day outside the loaded set with a nonzero daily metric gets at least one new
\* stress period, whatever the metric of other regions on the same days.
C30_NoCrowdingOut ==
    pc = "select_done" =>
        \A region \in result.failing :
            OwnStressDays(region) # {} => TableRowsOf(result.high, region) # <<>>
\* what holds instead: a failing region gets a new period when it has the
\* largest metric of all regions on some day outside the loaded set, and every
\* period it gets is such a day
C30_PeriodsForTopRegionOnly ==
    pc = "select_done" =>
        \A region \in result.failing :
            LET top == {d \in OwnStressDays(region) :
                            \E i \in 1 .. Len(result.table) :
                                result.table[i].d = d /\ result.table[i].r = region} IN
            /\ top # {} => TableRowsOf(result.high, region) # <<>>
            /\ \A i \in 1 .. Len(result.high) :
                    result.high[i].r = region => result.high[i].d \in top

====
